---- MODULE Spec2Model ----
(***************************************************************************)
(* RDMA multi-rail transport of aws-ofi-nccl (src/nccl_ofi_rdma.c).        *)
(* Two endpoints: "S" owns the send communicator, "R" owns the listen and  *)
(* receive communicators.  Every API call (send, recv, flush, test,        *)
(* connect, accept) is one action that includes the CQ progress it makes.  *)
(* The fabric is the environment: it delivers posted operations, writes    *)
(* completion entries to the per-rail CQs, and may refuse a post (EAGAIN). *)
(***************************************************************************)
EXTENDS Integers, Sequences, FiniteSets, TLC

\* ---------------------------------------------------------------- bounds
MaxMsgs == 2
MaxCredits == 1
MaxErrs == 1
MaxBusy == 1
MaxFlush == 1
MaxSize == 2
MaxHeld == 2
MaxPoolBusy == 2
FullMsgs == 1

\* ------------------------------------------------------ program constants
NCCL_OFI_RDMA_MSGBUFF_SIZE == 256
NUM_COMM_ID_BITS == 18
NUM_MSG_SEQ_NUM_BITS == 10
NUM_NUM_SEG_BITS == 4
NumRails == 2
eager_max_size == 1
RoundRobinThreshold == 2
min_bounce_posted == 2
max_bounce_posted == 3
NCCL_OFI_MAX_REQUESTS == 2
NCCL_OFI_MAX_SEND_REQUESTS == 2
flush_buff_size == 1

Rails == 0 .. (NumRails - 1)
EPS == {"S", "R"}
Peer(e) == IF e = "S" THEN "R" ELSE "S"

\* ------------------------------------------------- immediate-data layout
RECURSIVE BitOr(_, _)
BitOr(a, b) ==
  IF a = 0 THEN b
  ELSE IF b = 0 THEN a
  ELSE (IF a % 2 = 1 \/ b % 2 = 1 THEN 1 ELSE 0) + 2 * BitOr(a \div 2, b \div 2)

MSG_SEQ_NUM_MASK == 2 ^ NUM_MSG_SEQ_NUM_BITS - 1
COMM_ID_MASK == 2 ^ NUM_COMM_ID_BITS - 1
MSG_NUM_SEG_MASK == 2 ^ NUM_NUM_SEG_BITS - 1

\* A 32-bit word is kept as its top NUM_NUM_SEG_BITS bits (hi) and the
\* remaining low bits (lo); shifts drop the bits that leave the word.
LoBits == NUM_MSG_SEQ_NUM_BITS + NUM_COMM_ID_BITS
NoImm == [hi |-> 0, lo |-> 0]
Shl(x, sh) ==
  [hi |-> (x \div 2 ^ (LoBits - sh)) % 2 ^ NUM_NUM_SEG_BITS,
   lo |-> (x % 2 ^ (LoBits - sh)) * 2 ^ sh]
WordOr(a, b) == [hi |-> BitOr(a.hi, b.hi), lo |-> BitOr(a.lo, b.lo)]

\* variant: the communicator identifier is read without the shift
GET_COMM_ID_FROM_IMM_NoShift(data) == data.lo % (COMM_ID_MASK + 1)
GET_COMM_ID_FROM_IMM(data) == (data.lo \div 2 ^ NUM_MSG_SEQ_NUM_BITS) % (COMM_ID_MASK + 1)
GET_SEQ_NUM_FROM_IMM_Zero(data) == 0
GET_SEQ_NUM_FROM_IMM(data) == data.lo % (MSG_SEQ_NUM_MASK + 1)
GET_NUM_SEG_FROM_IMM(data) == data.hi % (MSG_NUM_SEG_MASK + 1)
GET_RDMA_WRITE_IMM_DATA(comm_id, seq, nseg) ==
  WordOr(Shl(seq, 0),
         WordOr(Shl(comm_id, NUM_MSG_SEQ_NUM_BITS),
                [hi |-> nseg % 2 ^ NUM_NUM_SEG_BITS, lo |-> 0]))

\* ------------------------------------------------------- message buffer
\* A message buffer is a function from the sequence numbers touched so far
\* to [stat, type, elem]; an untouched slot is NOTSTARTED.
NoElem == [type |-> "NONE"]
EmptyMsgbuff == << >>
MbSlot(mb, seq) ==
  IF seq \in DOMAIN mb THEN mb[seq]
  ELSE [stat |-> "NOTSTARTED", type |-> "NONE", elem |-> NoElem]
MbPut(mb, seq, slot) ==
  [s \in (DOMAIN mb) \cup {seq} |-> IF s = seq THEN slot ELSE mb[s]]

\* each operation returns [res, stat, mb]
nccl_ofi_msgbuff_insert(mb, seq, elem, type) ==
  LET cur == MbSlot(mb, seq) IN
  IF cur.stat = "NOTSTARTED"
  THEN [res |-> "SUCCESS", stat |-> "NOTSTARTED",
        mb |-> MbPut(mb, seq, [stat |-> "INPROGRESS", type |-> type, elem |-> elem])]
  ELSE [res |-> "INVALID_IDX", stat |-> cur.stat, mb |-> mb]

nccl_ofi_msgbuff_replace(mb, seq, elem, type) ==
  LET cur == MbSlot(mb, seq) IN
  IF cur.stat = "INPROGRESS"
  THEN [res |-> "SUCCESS", stat |-> cur.stat,
        mb |-> MbPut(mb, seq, [stat |-> "INPROGRESS", type |-> type, elem |-> elem])]
  ELSE [res |-> "INVALID_IDX", stat |-> cur.stat, mb |-> mb]

\* returns [res, stat, type, elem]
nccl_ofi_msgbuff_retrieve(mb, seq) ==
  LET cur == MbSlot(mb, seq) IN
  IF cur.stat = "INPROGRESS"
  THEN [res |-> "SUCCESS", stat |-> cur.stat, type |-> cur.type, elem |-> cur.elem]
  ELSE [res |-> "INVALID_IDX", stat |-> cur.stat, type |-> "NONE", elem |-> NoElem]

nccl_ofi_msgbuff_complete(mb, seq) ==
  LET cur == MbSlot(mb, seq) IN
  IF cur.stat = "INPROGRESS"
  THEN [res |-> "SUCCESS", stat |-> cur.stat,
        mb |-> MbPut(mb, seq, [stat |-> "COMPLETE", type |-> "NONE", elem |-> NoElem])]
  ELSE [res |-> "INVALID_IDX", stat |-> cur.stat, mb |-> mb]

\* ------------------------------------------------------------ scheduler
\* schedule(rr, size) returns [xfers, rr]: the transfer descriptors and the
\* advanced round-robin counter.
DivCeil(a, b) == (a + b - 1) \div b

RECURSIVE Stripe(_, _, _)
Stripe(rail, off, left) ==
  IF rail = NumRails THEN << >>
  ELSE LET len == IF DivCeil(left, NumRails - rail) < left
                  THEN DivCeil(left, NumRails - rail) ELSE left IN
       <<[rail_id |-> rail, offset |-> off, msg_size |-> len]>>
         \o Stripe(rail + 1, off + len, left - len)

scheduler_get_schedule(rr, size) ==
  IF size < RoundRobinThreshold
  THEN [xfers |-> <<[rail_id |-> rr, offset |-> 0, msg_size |-> size]>>,
        rr |-> (rr + 1) % NumRails]
  ELSE [xfers |-> Stripe(0, 0, size), rr |-> rr]

\* ------------------------------------------------------------- state
VARIABLES
  ep,       \* per endpoint: ref_cnt, comms[], the identifiers taken from
            \* comm_idpool, pending_reqs_queue, per-rail num_bounce_posted,
            \* scheduler round-robin counter
  s_comm,   \* send communicator of endpoint "S"
  r_comm,   \* receive communicator of endpoint "R"
  l_comm,   \* listen communicator of endpoint "R"
  conn,     \* connect handle state of the sender (stage, request)
  reqs,     \* allocated requests, keyed by freelist entry
  cq,       \* completion queue of each endpoint rail
  net,      \* operations posted to the fabric and not yet completed
  rx,       \* receive buffers posted to each endpoint rail
  ubuf,     \* contents of the user receive buffers
  user,     \* what the callers hold: handles, call counts, reported results
  faults    \* what the fabric has done so far: operations failed (err), API
            \* calls in which it refused a post with EAGAIN (busy)

vars == <<ep, s_comm, r_comm, l_comm, conn, reqs, cq, net, rx, ubuf, user, faults>>

\* Bind({F(x) : x \in {v}}) is F(v): the value v of a step is computed once
\* and named x in what follows it
Bind(S) == CHOOSE x \in S : TRUE

NULL == <<"NULL", 0>>
BounceCtx(rail) == <<"B", rail>>
IsBounce(id) == id[1] = "B"

\* The program state an API call works on, plus the number of fabric posts
\* that succeed before the fabric answers EAGAIN (-1: no limit), the
\* contexts whose latest post the fabric refused in this call (eagain) and
\* the return code of the step just made.
World(c) ==
  [ep |-> ep, s_comm |-> s_comm, r_comm |-> r_comm, l_comm |-> l_comm,
   conn |-> conn, reqs |-> reqs, cq |-> cq, net |-> net, rx |-> rx,
   credits |-> c, refused |-> FALSE, eagain |-> {}, rc |-> "OK"]

Ok(w) == [w EXCEPT !.rc = "OK"]
Fail(w, code) == [w EXCEPT !.rc = code]

\* fi_send / fi_senddata / fi_writedata / fi_read: accepted or -FI_EAGAIN
fi_post(w, op) ==
  IF w.credits = 0
  THEN [w EXCEPT !.rc = "EAGAIN", !.refused = TRUE, !.eagain = @ \cup {op.ctx}]
  ELSE [w EXCEPT !.net = @ \cup {op},
                 !.eagain = @ \ {op.ctx},
                 !.credits = IF @ > 0 THEN @ - 1 ELSE @,
                 !.rc = "OK"]

\* fi_recv of a bounce buffer on a rail
fi_recv(w, e, rail) ==
  IF w.credits = 0
  THEN [w EXCEPT !.rc = "EAGAIN", !.refused = TRUE, !.eagain = @ \cup {BounceCtx(rail)}]
  ELSE [w EXCEPT !.rx[e][rail] = @ + 1,
                 !.eagain = @ \ {BounceCtx(rail)},
                 !.credits = IF @ > 0 THEN @ - 1 ELSE @,
                 !.rc = "OK"]

nccl_ofi_deque_insert_back(w, e, id) == [w EXCEPT !.ep[e].pending = Append(@, id)]
nccl_ofi_deque_insert_front(w, e, id) == [w EXCEPT !.ep[e].pending = <<id>> \o @]

\* ------------------------------------------------ request state updates
set_request_state_to_error(w, id) ==
  LET req == w.reqs[id]
      w1 == [w EXCEPT !.reqs[id].state = "ERROR"] IN
  IF req.type = "SEND_CTRL" \/ req.type = "RECV_SEGMS"
  THEN [w1 EXCEPT !.reqs[req.recv_req].state = "ERROR"]
  ELSE w1

inc_req_completion(w, id, size, total_ncompls) ==
  LET req == w.reqs[id]
      ncompls == req.ncompls + 1 IN
  [w EXCEPT !.reqs[id] =
     [req EXCEPT !.size = @ + size,
                 !.ncompls = ncompls,
                 !.state = IF ncompls = total_ncompls /\ req.state # "ERROR"
                           THEN "COMPLETED" ELSE @],
   !.rc = "OK"]

\* ------------------------------------------------------ bounce buffers
post_bounce_buffer(w, e, rail) == fi_recv(w, e, rail)

handle_bounce_eagain(w, e, rail, num_buffs_failed) ==
  LET w1 == nccl_ofi_deque_insert_back(w, e, BounceCtx(rail)) IN
  Ok([w1 EXCEPT !.ep[e].nbp[rail] = @ - num_buffs_failed])

RECURSIVE PostBounceLoop(_, _, _, _, _)
PostBounceLoop(w, e, rail, i, buffers_needed) ==
  IF i = buffers_needed THEN Ok(w)
  ELSE Bind({
         IF w1.rc = "EAGAIN"
         THEN handle_bounce_eagain(w1, e, rail, buffers_needed - i - 1)
         ELSE PostBounceLoop(w1, e, rail, i + 1, buffers_needed)
       : w1 \in {post_bounce_buffer(w, e, rail)} })

post_bounce_buffs_on_rail(w, e, rail) ==
  LET buffers_needed == max_bounce_posted - w.ep[e].nbp[rail]
      w1 == [w EXCEPT !.ep[e].nbp[rail] = max_bounce_posted] IN
  PostBounceLoop(w1, e, rail, 0, buffers_needed)

check_post_bounce_buffers_rail(w, e, rail) ==
  IF w.ep[e].nbp[rail] < min_bounce_posted
  THEN post_bounce_buffs_on_rail(w, e, rail)
  ELSE Ok(w)

repost_bounce_buff(w, e, rail) ==
  Bind({
    IF w1.rc = "EAGAIN"
    THEN Ok(nccl_ofi_deque_insert_back(w1, e, BounceCtx(rail)))
    ELSE check_post_bounce_buffers_rail(w1, e, rail)
  : w1 \in {post_bounce_buffer(w, e, rail)} })

decrease_bounce_buff_cnt(w, e, rail) ==
  check_post_bounce_buffers_rail([w EXCEPT !.ep[e].nbp[rail] = @ - 1], e, rail)

\* variant: a released bounce buffer is freed whatever the count
check_post_bounce_req_Free(w, e, rail) == Ok(w)

\* variant: a released bounce buffer is posted again whatever the count
check_post_bounce_req_NoMax(w, e, rail) ==
  Bind({
    IF w1.rc = "EAGAIN"
    THEN Ok(nccl_ofi_deque_insert_back(w1, e, BounceCtx(rail)))
    ELSE check_post_bounce_buffers_rail(w1, e, rail)
  : w1 \in {post_bounce_buffer([w EXCEPT !.ep[e].nbp[rail] = @ + 1], e, rail)} })

check_post_bounce_req(w, e, rail) ==
  IF w.ep[e].nbp[rail] < max_bounce_posted
  THEN Bind({
         IF w1.rc = "EAGAIN"
         THEN Ok(nccl_ofi_deque_insert_back(w1, e, BounceCtx(rail)))
         ELSE check_post_bounce_buffers_rail(w1, e, rail)
       : w1 \in {post_bounce_buffer([w EXCEPT !.ep[e].nbp[rail] = @ + 1], e, rail)} })
  ELSE Ok(w)

\* ------------------------------------------------------------ requests
\* allocate_req: the first free entry of the communicator's freelist
AllocId(w, side) ==
  <<side, CHOOSE i \in 0 .. Cardinality(DOMAIN w.reqs) :
            /\ <<side, i>> \notin DOMAIN w.reqs
            /\ \A j \in 0 .. (i - 1) : <<side, j>> \in DOMAIN w.reqs>>

PutReq(w, id, req) ==
  [w EXCEPT !.reqs = [x \in (DOMAIN w.reqs) \cup {id} |->
                        IF x = id THEN req ELSE w.reqs[x]]]

DropReq(w, id) ==
  [w EXCEPT !.reqs = [x \in (DOMAIN w.reqs) \ {id} |-> w.reqs[x]]]

\* the bytes [off, off+len) of the k-th message
Bytes(k, off, len) == [j \in 1 .. len |-> <<k, off + j - 1>>]

FabricOp(kind, from, rail, ctx, imm, msg, len, dst, off) ==
  [op |-> kind, from |-> from, rail |-> rail, ctx |-> ctx, imm |-> imm,
   msg |-> msg, len |-> len, dst |-> dst, off |-> off]

post_rdma_write(w, id, xfer) ==
  LET req == w.reqs[id] IN
  fi_post(w, FabricOp("write", "S", xfer.rail_id, id, req.wdata,
                      [type |-> "DATA",
                       bytes |-> Bytes(req.buff, xfer.offset, xfer.msg_size)],
                      xfer.msg_size, req.remote_buff, xfer.offset))

post_rdma_eager_send(w, id, xfer) ==
  LET req == w.reqs[id] IN
  fi_post(w, FabricOp("senddata", "S", xfer.rail_id, id, req.wdata,
                      [type |-> "EAGER",
                       bytes |-> Bytes(req.buff, xfer.offset, xfer.msg_size)],
                      xfer.msg_size, 0, 0))

\* variant: a refused segment is counted as transferred
RECURSIVE WriteLoop_Skip(_, _)
WriteLoop_Skip(w, id) ==
  LET req == w.reqs[id] IN
  IF req.xferred_rail_id >= Len(req.schedule) THEN Ok(w)
  ELSE Bind({
         IF w1.rc = "OK"
         THEN WriteLoop_Skip([w1 EXCEPT !.reqs[id].xferred_rail_id = @ + 1], id)
         ELSE [w1 EXCEPT !.reqs[id].xferred_rail_id = @ + 1]
       : w1 \in {post_rdma_write(w, id, req.schedule[req.xferred_rail_id + 1])} })

RECURSIVE WriteLoop(_, _)
WriteLoop(w, id) ==
  LET req == w.reqs[id] IN
  IF req.xferred_rail_id >= Len(req.schedule) THEN Ok(w)
  ELSE Bind({
         IF w1.rc = "OK"
         THEN WriteLoop([w1 EXCEPT !.reqs[id].xferred_rail_id = @ + 1], id)
         ELSE w1
       : w1 \in {post_rdma_write(w, id, req.schedule[req.xferred_rail_id + 1])} })

\* send_progress of a SEND request or of the bounce request of a rail
send_progress(w, e, id) ==
  IF IsBounce(id) THEN post_bounce_buffer(w, e, id[2])
  ELSE IF w.reqs[id].type = "SEND"
  THEN IF w.reqs[id].eager
       THEN post_rdma_eager_send(w, id, w.reqs[id].schedule[1])
       ELSE WriteLoop(w, id)
  ELSE Fail(w, "EINVAL")

post_rdma_ctrl(w, id) ==
  LET req == w.reqs[id] IN
  fi_post(w, FabricOp("send", "R", req.ctrl_schedule[1].rail_id, id, NoImm,
                      req.ctrl_msg, 1, 0, 0))

post_eager_copy(w, id) ==
  LET req == w.reqs[id]
      bounce == req.eager_bounce_req
      recv == w.reqs[req.recv_req] IN
  IF recv.dst_len < bounce.recv_len THEN Fail(w, "EIO")
  ELSE fi_post(w, FabricOp("read", "R", bounce.rail, id, NoImm,
                           bounce.msg, bounce.recv_len, recv.dst_buff, 0))

post_flush_req(w, id) ==
  LET req == w.reqs[id] IN
  fi_post(w, FabricOp("read", "R", req.schedule[1].rail_id, id, NoImm,
                      [type |-> "FLUSH"], 0, 0, 0))

\* variant: a refused post is not queued
receive_progress_NoQueue(w, id, add_to_pending) ==
  LET type == w.reqs[id].type IN
  IF type = "EAGER_COPY" THEN post_eager_copy(w, id)
  ELSE IF type = "SEND_CTRL" THEN post_rdma_ctrl(w, id)
  ELSE IF type = "FLUSH" THEN post_flush_req(w, id)
  ELSE Fail(w, "EINVAL")

\* variant: the request is queued whether or not its post was refused
receive_progress_Always(w, id, add_to_pending) ==
  LET type == w.reqs[id].type IN
  Bind({
    IF w1.rc \in {"OK", "EAGAIN"} /\ add_to_pending
    THEN Ok(nccl_ofi_deque_insert_back(w1, "R", id))
    ELSE w1
  : w1 \in {IF type = "EAGER_COPY" THEN post_eager_copy(w, id)
            ELSE IF type = "SEND_CTRL" THEN post_rdma_ctrl(w, id)
            ELSE IF type = "FLUSH" THEN post_flush_req(w, id)
            ELSE Fail(w, "EINVAL")} })

receive_progress(w, id, add_to_pending) ==
  LET type == w.reqs[id].type IN
  Bind({
    IF w1.rc = "EAGAIN" /\ add_to_pending /\ type \in {"EAGER_COPY", "SEND_CTRL", "FLUSH"}
    THEN Ok(nccl_ofi_deque_insert_back(w1, "R", id))
    ELSE w1
  : w1 \in {IF type = "EAGER_COPY" THEN post_eager_copy(w, id)
            ELSE IF type = "SEND_CTRL" THEN post_rdma_ctrl(w, id)
            ELSE IF type = "FLUSH" THEN post_flush_req(w, id)
            ELSE Fail(w, "EINVAL")} })

\* ---------------------------------------------------- completion handlers
set_eager_copy_completed(w, id) ==
  LET req == w.reqs[id]
      w1 == [w EXCEPT !.reqs[id].ncompls = 1, !.reqs[id].state = "COMPLETED"]
      size == req.eager_bounce_req.recv_len IN
  Bind({
    IF w2.rc # "OK" THEN w2
    ELSE inc_req_completion(w2, req.recv_req, size, w2.reqs[req.recv_req].total_num_compls)
  : w2 \in {check_post_bounce_req(w1, "R", req.eager_bounce_req.rail)} })

set_send_ctrl_completed(w, id) ==
  LET req == w.reqs[id]
      w1 == [w EXCEPT !.reqs[id].ncompls = 1, !.reqs[id].state = "COMPLETED"] IN
  inc_req_completion(w1, req.recv_req, 0, w1.reqs[req.recv_req].total_num_compls)

\* variant: the size of a segment is not accumulated
inc_recv_seg_completion_NoSize(w, id, size, total_nsegms) ==
  LET req == w.reqs[id]
      w1 == [w EXCEPT !.reqs[id].ncompls = @ + 1] IN
  IF w1.reqs[id].ncompls = total_nsegms
  THEN inc_req_completion([w1 EXCEPT !.reqs[id].state = "COMPLETED"],
                          req.recv_req, 0, w1.reqs[req.recv_req].total_num_compls)
  ELSE Ok(w1)

\* variant: the first segment that arrives completes the RECV_SEGMS request
inc_recv_seg_completion_First(w, id, size, total_nsegms) ==
  LET req == w.reqs[id]
      w1 == [w EXCEPT !.reqs[id].size = @ + size, !.reqs[id].ncompls = @ + 1] IN
  inc_req_completion([w1 EXCEPT !.reqs[id].state = "COMPLETED"],
                     req.recv_req, w1.reqs[id].size,
                     w1.reqs[req.recv_req].total_num_compls)

inc_recv_seg_completion(w, id, size, total_nsegms) ==
  LET req == w.reqs[id]
      w1 == [w EXCEPT !.reqs[id].size = @ + size, !.reqs[id].ncompls = @ + 1] IN
  IF w1.reqs[id].ncompls = total_nsegms
  THEN inc_req_completion([w1 EXCEPT !.reqs[id].state = "COMPLETED"],
                          req.recv_req, w1.reqs[id].size,
                          w1.reqs[req.recv_req].total_num_compls)
  ELSE Ok(w1)

copy_ctrl_data(w, bounce, id) ==
  [w EXCEPT !.reqs[id].remote_buff = bounce.msg.buff_addr,
            !.reqs[id].remote_len = bounce.msg.buff_len]

\* comms[] lookup of an endpoint: the kind of communicator bound to an id
get_comm(w, e, id) ==
  IF id \in DOMAIN w.ep[e].comms THEN w.ep[e].comms[id] ELSE "NONE"

\* variant: a control message that finds the SEND request in its slot is
\* dropped, its bounce buffer reposted
handle_ctrl_recv_IgnoreReq(w, msg_seq_num, bounce) ==
  LET ins == nccl_ofi_msgbuff_insert(w.s_comm.msgbuff, msg_seq_num, bounce, "BUFF") IN
  IF ins.res = "SUCCESS"
  THEN decrease_bounce_buff_cnt([w EXCEPT !.s_comm.msgbuff = ins.mb], "S", bounce.rail)
  ELSE repost_bounce_buff(Ok(w), "S", bounce.rail)

handle_ctrl_recv(w, msg_seq_num, bounce) ==
  LET ins == nccl_ofi_msgbuff_insert(w.s_comm.msgbuff, msg_seq_num, bounce, "BUFF") IN
  IF ins.res = "SUCCESS"
  THEN decrease_bounce_buff_cnt([w EXCEPT !.s_comm.msgbuff = ins.mb], "S", bounce.rail)
  ELSE IF ins.stat # "INPROGRESS" THEN Fail(w, "EINVAL")
  ELSE
    LET got == nccl_ofi_msgbuff_retrieve(w.s_comm.msgbuff, msg_seq_num) IN
    IF got.res # "SUCCESS" \/ got.type # "REQ" THEN Fail(w, "EINVAL")
    ELSE
      LET id == got.elem
          eager == w.reqs[id].eager IN
      Bind({
        IF ~eager /\ w1.reqs[id].buff_len > w1.reqs[id].remote_len
        THEN Ok(set_request_state_to_error(w1, id))
        ELSE
          Bind({
            Bind({
              IF w3.rc # "OK" THEN w3
              ELSE repost_bounce_buff(
                     inc_req_completion(w3, id, 0, w3.reqs[id].total_num_compls),
                     "S", bounce.rail)
            : w3 \in {IF w2.rc = "EAGAIN"
                      THEN Ok(nccl_ofi_deque_insert_back(w2, "S", id)) ELSE w2} })
          : w2 \in {IF eager THEN w1 ELSE send_progress(w1, "S", id)} })
      : w1 \in {IF eager THEN w ELSE copy_ctrl_data(w, bounce, id)} })

alloc_eager_copy_req(w, recv_id, bounce) ==
  LET id == AllocId(w, "R")
      w1 == PutReq(w, id,
              [type |-> "EAGER_COPY", state |-> "CREATED", size |-> 0, ncompls |-> 0,
               msg_seq_num |-> w.reqs[recv_id].msg_seq_num,
               recv_req |-> recv_id, eager_bounce_req |-> bounce]) IN
  Ok([w1 EXCEPT !.reqs[recv_id].eager_copy_req = id])

\* variant: an empty eager message is copied out of its bounce buffer like
\* any other
handle_eager_recv_Copy(w, msg_seq_num, bounce) ==
  Bind({
    IF w0.rc # "OK" THEN w0
    ELSE
      LET ins == nccl_ofi_msgbuff_insert(w0.r_comm.msgbuff, msg_seq_num, bounce, "BUFF") IN
      IF ins.res = "SUCCESS" THEN Ok([w0 EXCEPT !.r_comm.msgbuff = ins.mb])
      ELSE IF ins.stat # "INPROGRESS" THEN Fail(w0, "EINVAL")
      ELSE
        LET got == nccl_ofi_msgbuff_retrieve(w0.r_comm.msgbuff, msg_seq_num) IN
        IF got.res # "SUCCESS" \/ got.type # "REQ" THEN Fail(w0, "EINVAL")
        ELSE
          Bind({
            receive_progress(w1, w1.reqs[got.elem].eager_copy_req, TRUE)
          : w1 \in {alloc_eager_copy_req(w0, got.elem, bounce)} })
  : w0 \in {decrease_bounce_buff_cnt(w, "R", bounce.rail)} })

handle_eager_recv(w, msg_seq_num, bounce) ==
  Bind({
    IF w0.rc # "OK" THEN w0
    ELSE
      LET ins == nccl_ofi_msgbuff_insert(w0.r_comm.msgbuff, msg_seq_num, bounce, "BUFF") IN
      IF ins.res = "SUCCESS" THEN Ok([w0 EXCEPT !.r_comm.msgbuff = ins.mb])
      ELSE IF ins.stat # "INPROGRESS" THEN Fail(w0, "EINVAL")
      ELSE
        LET got == nccl_ofi_msgbuff_retrieve(w0.r_comm.msgbuff, msg_seq_num) IN
        IF got.res # "SUCCESS" \/ got.type # "REQ" THEN Fail(w0, "EINVAL")
        ELSE
          LET recv_id == got.elem IN
          IF bounce.recv_len = 0
          THEN Bind({
                 IF w1.rc # "OK" THEN w1
                 ELSE inc_req_completion(w1, recv_id, 0, w1.reqs[recv_id].total_num_compls)
               : w1 \in {check_post_bounce_req(w0, "R", bounce.rail)} })
          ELSE Bind({
                 receive_progress(w1, w1.reqs[recv_id].eager_copy_req, TRUE)
               : w1 \in {alloc_eager_copy_req(w0, recv_id, bounce)} })
  : w0 \in {decrease_bounce_buff_cnt(w, "R", bounce.rail)} })

\* -------------------------------------------------------- freeing requests
\* variant: the entry goes back to the freelist, the count of requests in
\* flight is left alone
free_base_req_NoDec(w, id, dec_inflight_reqs) == DropReq(w, id)

\* free_base_req: the entry goes back to the freelist of its communicator
free_base_req(w, id, dec_inflight_reqs) ==
  LET w1 == DropReq(w, id) IN
  IF ~dec_inflight_reqs THEN w1
  ELSE IF id[1] = "S" THEN [w1 EXCEPT !.s_comm.num_inflight_reqs = @ - 1]
  ELSE [w1 EXCEPT !.r_comm.num_inflight_reqs = @ - 1]

free_send_req(w, id, dec) == free_base_req(w, id, dec)
free_flush_req(w, id, dec) == free_base_req(w, id, dec)
free_send_comm_connection_req(w, id, dec) == free_base_req(w, id, dec)

free_recv_req(w, id, dec) ==
  LET req == w.reqs[id] IN
  Bind({
    Bind({
      Bind({
        free_base_req(w3, id, dec)
      : w3 \in {IF req.eager_copy_req # NULL
                THEN free_base_req(w2, req.eager_copy_req, FALSE) ELSE w2} })
    : w2 \in {IF req.recv_segms_req # NULL
              THEN free_base_req(w1, req.recv_segms_req, FALSE) ELSE w1} })
  : w1 \in {IF req.send_ctrl_req # NULL
            THEN free_base_req(w, req.send_ctrl_req, FALSE) ELSE w} })

\* req->free(req, dec_inflight_reqs)
req_free(w, id, dec) ==
  LET type == w.reqs[id].type IN
  IF type = "SEND" THEN free_send_req(w, id, dec)
  ELSE IF type = "RECV" THEN free_recv_req(w, id, dec)
  ELSE IF type = "FLUSH" THEN free_flush_req(w, id, dec)
  ELSE free_base_req(w, id, dec)

\* ---------------------------------------------------------- handshake end
num_comm_ids == 2 ^ NUM_COMM_ID_BITS

init_send_comm_rails(w, num_remote_rails) ==
  IF NumRails # num_remote_rails THEN Fail(w, "EINVAL")
  ELSE Ok([w EXCEPT !.s_comm.num_init_rails = NumRails])

\* variant: the rails are initialised, connected is not set
finish_connect_NoFlag(w) ==
  init_send_comm_rails(
    [w EXCEPT !.s_comm.remote_comm_id = w.s_comm.conn_msg.local_comm_id],
    w.s_comm.conn_msg.num_rails)

\* variant: the id of the peer is not taken from the response
finish_connect_NoId(w) ==
  LET conn_resp == w.s_comm.conn_msg IN
  IF w.reqs[w.s_comm.conn_resp_req].state # "COMPLETED" THEN Fail(w, "EINVAL")
  ELSE IF conn_resp.num_rails # NumRails THEN Fail(w, "EINVAL")
  ELSE IF conn_resp.local_comm_id >= num_comm_ids THEN Fail(w, "EINVAL")
  ELSE
    Bind({
      IF w1.rc # "OK" THEN w1
      ELSE Ok([free_send_comm_connection_req(w1, w1.s_comm.conn_resp_req, FALSE)
                 EXCEPT !.s_comm.conn_resp_req = NULL, !.s_comm.connected = TRUE])
    : w1 \in {init_send_comm_rails(w, conn_resp.num_rails)} })

finish_connect(w) ==
  LET conn_resp == w.s_comm.conn_msg IN
  IF w.reqs[w.s_comm.conn_resp_req].state # "COMPLETED" THEN Fail(w, "EINVAL")
  ELSE IF conn_resp.num_rails # NumRails THEN Fail(w, "EINVAL")
  ELSE IF conn_resp.local_comm_id >= num_comm_ids THEN Fail(w, "EINVAL")
  ELSE
    Bind({
      IF w1.rc # "OK" THEN w1
      ELSE Ok([free_send_comm_connection_req(w1, w1.s_comm.conn_resp_req, FALSE)
                 EXCEPT !.s_comm.conn_resp_req = NULL, !.s_comm.connected = TRUE])
    : w1 \in {init_send_comm_rails(
                [w EXCEPT !.s_comm.remote_comm_id = conn_resp.local_comm_id],
                conn_resp.num_rails)} })

\* ------------------------------------------------------- CQ dispatching
LReq == <<"L", 0>>

handle_bounce_recv(w, e, msg_type, entry) ==
  LET bounce == [rail |-> entry.ctx[2], recv_len |-> entry.len, msg |-> entry.buf] IN
  IF ~IsBounce(entry.ctx) THEN Fail(w, "EINVAL")
  ELSE IF msg_type = "CONN"
  THEN IF get_comm(w, e, entry.buf.remote_comm_id) # "l" THEN Fail(w, "SEGV")
       ELSE repost_bounce_buff(
              inc_req_completion([w EXCEPT !.l_comm.conn_msg = entry.buf],
                                 LReq, entry.len, 1),
              e, bounce.rail)
  ELSE IF msg_type = "CONN_RESP"
  THEN IF get_comm(w, e, entry.buf.remote_comm_id) # "s" \/ w.s_comm.conn_resp_req = NULL
       THEN Fail(w, "SEGV")
       ELSE Bind({
              IF w2.rc # "OK" THEN w2 ELSE repost_bounce_buff(w2, e, bounce.rail)
            : w2 \in {finish_connect(
                        inc_req_completion([w EXCEPT !.s_comm.conn_msg = entry.buf],
                                           w.s_comm.conn_resp_req, entry.len, 1))} })
  ELSE IF msg_type = "CTRL"
  THEN IF get_comm(w, e, entry.buf.remote_comm_id) # "s" THEN Fail(w, "SEGV")
       ELSE handle_ctrl_recv(w, entry.buf.msg_seq_num, bounce)
  ELSE IF msg_type = "EAGER"
  THEN IF get_comm(w, e, GET_COMM_ID_FROM_IMM(entry.data)) # "r" THEN Fail(w, "SEGV")
       ELSE handle_eager_recv(w, GET_SEQ_NUM_FROM_IMM(entry.data), bounce)
  ELSE Fail(w, "EINVAL")

\* the RECV request the immediate data names, or NULL
get_req_from_imm_data(w, e, data) ==
  IF get_comm(w, e, GET_COMM_ID_FROM_IMM(data)) # "r" THEN NULL
  ELSE LET got == nccl_ofi_msgbuff_retrieve(w.r_comm.msgbuff, GET_SEQ_NUM_FROM_IMM(data)) IN
       IF got.res # "SUCCESS" THEN NULL
       ELSE IF got.type # "REQ" THEN NULL
       ELSE got.elem

handle_write_comp(w, e, entry) ==
  LET id == get_req_from_imm_data(w, e, entry.data) IN
  IF id = NULL THEN Fail(w, "EINVAL")
  ELSE inc_recv_seg_completion(w, w.reqs[id].recv_segms_req, entry.len,
                               GET_NUM_SEG_FROM_IMM(entry.data))

process_completions(w, e, entry) ==
  LET req == entry.ctx
      type == IF req \in DOMAIN w.reqs THEN w.reqs[req].type ELSE "NONE" IN
  IF entry.flags = "SEND"
  THEN IF type = "SEND_CONN" \/ type = "SEND_CONN_RESP"
       THEN inc_req_completion(w, req, entry.len, 1)
       ELSE IF type = "SEND_CTRL" THEN set_send_ctrl_completed(w, req)
       ELSE IF type = "SEND"
       THEN inc_req_completion(w, req, 0, w.reqs[req].total_num_compls)
       ELSE Fail(w, "EINVAL")
  ELSE IF entry.flags = "RECV" THEN handle_bounce_recv(w, e, entry.buf.type, entry)
  ELSE IF entry.flags = "RECV_DATA" THEN handle_bounce_recv(w, e, "EAGER", entry)
  ELSE IF entry.flags = "REMOTE_WRITE" THEN handle_write_comp(w, e, entry)
  ELSE IF entry.flags = "WRITE"
  THEN inc_req_completion(w, req, 0, w.reqs[req].total_num_compls)
  ELSE IF entry.flags = "READ"
  THEN IF type = "FLUSH" THEN inc_req_completion(w, req, 0, Len(w.reqs[req].schedule))
       ELSE IF type = "EAGER_COPY" THEN set_eager_copy_completed(w, req)
       ELSE Fail(w, "EINVAL")
  ELSE Fail(w, "EINVAL")

process_err_completion(w, e, entry) ==
  LET req == IF entry.flags = "REMOTE_WRITE"
             THEN get_req_from_imm_data(w, e, entry.data) ELSE entry.ctx IN
  IF req = NULL THEN Fail(w, "EIO")
  ELSE IF IsBounce(req) THEN Fail(w, entry.err)
  ELSE Fail(set_request_state_to_error(w, req), entry.err)

\* ------------------------------------------------------ progress engine
\* variant: the pending requests are never posted again
process_pending_reqs_Skip(w, e) == Ok(w)

\* a variant that puts a refused request at the back of the queue
RECURSIVE process_pending_reqs_Back(_, _)
process_pending_reqs_Back(w, e) ==
  IF w.ep[e].pending = << >> THEN Ok(w)
  ELSE
    LET id == Head(w.ep[e].pending)
        w0 == [w EXCEPT !.ep[e].pending = Tail(@)]
        type == IF IsBounce(id) THEN "BOUNCE" ELSE w.reqs[id].type IN
    Bind({
      IF w1.rc = "EAGAIN" THEN Ok(nccl_ofi_deque_insert_back(w1, e, id))
      ELSE IF w1.rc # "OK" THEN w1
      ELSE process_pending_reqs_Back(w1, e)
    : w1 \in {IF type = "SEND" \/ type = "BOUNCE" THEN send_progress(w0, e, id)
              ELSE IF type \in {"EAGER_COPY", "SEND_CTRL", "FLUSH"}
              THEN receive_progress(w0, id, FALSE)
              ELSE Fail(w0, "EINVAL")} })

RECURSIVE process_pending_reqs(_, _)
process_pending_reqs(w, e) ==
  IF w.ep[e].pending = << >> THEN Ok(w)
  ELSE
    LET id == Head(w.ep[e].pending)
        w0 == [w EXCEPT !.ep[e].pending = Tail(@)]
        type == IF IsBounce(id) THEN "BOUNCE" ELSE w.reqs[id].type IN
    Bind({
      IF w1.rc = "EAGAIN" THEN Ok(nccl_ofi_deque_insert_front(w1, e, id))
      ELSE IF w1.rc # "OK" THEN w1
      ELSE process_pending_reqs(w1, e)
    : w1 \in {IF type = "SEND" \/ type = "BOUNCE" THEN send_progress(w0, e, id)
              ELSE IF type \in {"EAGER_COPY", "SEND_CTRL", "FLUSH"}
              THEN receive_progress(w0, id, FALSE)
              ELSE Fail(w0, "EINVAL")} })

RECURSIVE ofi_process_cq_rail(_, _, _)
ofi_process_cq_rail(w, e, rail) ==
  IF w.cq[e][rail] = << >> THEN Ok(w)
  ELSE
    LET entry == Head(w.cq[e][rail])
        w0 == [w EXCEPT !.cq[e][rail] = Tail(@)] IN
    IF entry.err # "OK" THEN process_err_completion(w0, e, entry)
    ELSE Bind({
           IF w1.rc # "OK" THEN w1 ELSE ofi_process_cq_rail(w1, e, rail)
         : w1 \in {process_completions(w0, e, entry)} })

RECURSIVE ProcessRails(_, _, _)
ProcessRails(w, e, rail) ==
  IF rail = NumRails THEN Ok(w)
  ELSE Bind({
         IF w1.rc # "OK" THEN w1 ELSE ProcessRails(w1, e, rail + 1)
       : w1 \in {ofi_process_cq_rail(w, e, rail)} })

ofi_process_cq(w, e) ==
  Bind({
    IF w1.rc # "OK" THEN w1 ELSE process_pending_reqs(w1, e)
  : w1 \in {ProcessRails(w, e, 0)} })

process_cq_if_pending(w, e) ==
  IF w.ep[e].pending = << >> THEN Ok(w)
  ELSE Bind({
         IF w1.rc # "OK" THEN w1
         ELSE IF w1.ep[e].pending # << >> THEN Fail(w1, "EAGAIN")
         ELSE w1
       : w1 \in {ofi_process_cq(w, e)} })

\* ------------------------------------------------------------------ test
\* returns [w, done, size]; w.rc is the return code
test(w, id) ==
  Bind({
    IF w1.rc # "OK" THEN [w |-> w1, done |-> 0, size |-> 0]
    ELSE IF w1.reqs[id].state = "COMPLETED"
    THEN
      LET req == w1.reqs[id]
          mb == IF req.type = "SEND" THEN w1.s_comm.msgbuff ELSE w1.r_comm.msgbuff
          cmp == nccl_ofi_msgbuff_complete(mb, req.msg_seq_num)
          w2 == IF req.type = "SEND" THEN [w1 EXCEPT !.s_comm.msgbuff = cmp.mb]
                ELSE IF req.type = "RECV" THEN [w1 EXCEPT !.r_comm.msgbuff = cmp.mb]
                ELSE w1 IN
      IF req.type # "FLUSH" /\ cmp.res # "SUCCESS"
      THEN [w |-> Fail(w1, "EINVAL"), done |-> 1, size |-> req.size]
      ELSE [w |-> Ok(req_free(w2, id, TRUE)), done |-> 1, size |-> req.size]
    ELSE IF w1.reqs[id].state = "ERROR"
    THEN [w |-> Fail(w1, "EINVAL"), done |-> 0, size |-> 0]
    ELSE [w |-> Ok(w1), done |-> 0, size |-> 0]
  : w1 \in {IF w.reqs[id].state # "COMPLETED" /\ w.reqs[id].state # "ERROR"
            THEN ofi_process_cq(w, id[1]) ELSE Ok(w)} })

\* ------------------------------------------------------------------ recv
insert_send_ctrl_req(w, msg_seq_num, buff, size, recv_id) ==
  LET id == AllocId(w, "R")
      sched == scheduler_get_schedule(w.ep["R"].rr, 1)
      w1 == PutReq([w EXCEPT !.ep["R"].rr = sched.rr], id,
              [type |-> "SEND_CTRL", state |-> "CREATED", size |-> 0, ncompls |-> 0,
               msg_seq_num |-> msg_seq_num, recv_req |-> recv_id,
               ctrl_schedule |-> sched.xfers,
               ctrl_msg |-> [type |-> "CTRL",
                             remote_comm_id |-> w.r_comm.remote_comm_id,
                             msg_seq_num |-> msg_seq_num,
                             buff_addr |-> buff, buff_len |-> size]]) IN
  IF Len(sched.xfers) # 1 THEN Fail(w1, "EINVAL")
  ELSE Ok([w1 EXCEPT !.reqs[recv_id].send_ctrl_req = id])

insert_recv_segms_req(w, msg_seq_num, recv_id) ==
  LET id == AllocId(w, "R")
      w1 == PutReq(w, id,
              [type |-> "RECV_SEGMS", state |-> "CREATED", size |-> 0, ncompls |-> 0,
               msg_seq_num |-> msg_seq_num, recv_req |-> recv_id]) IN
  Ok([w1 EXCEPT !.reqs[recv_id].recv_segms_req = id])

\* returns [w, req]
allocate_rdma_recv_req(w, msg_seq_num, buff, size) ==
  LET id == AllocId(w, "R")
      w1 == PutReq(w, id,
              [type |-> "RECV", state |-> "CREATED", size |-> 0, ncompls |-> 0,
               msg_seq_num |-> msg_seq_num, total_num_compls |-> 2,
               eager_copy_req |-> NULL, send_ctrl_req |-> NULL,
               recv_segms_req |-> NULL, dst_buff |-> buff, dst_len |-> size])
      w2 == insert_send_ctrl_req(w1, msg_seq_num, buff, size, id) IN
  IF w2.rc # "OK" THEN [w |-> w2, req |-> NULL]
  ELSE [w |-> insert_recv_segms_req(w2, msg_seq_num, id), req |-> id]

\* variant: the request is entered with insert whatever the lookup found, so
\* that it never takes the place of an eager message that came first
insert_rdma_recv_req_into_msgbuff_Insert(w, eager, id) ==
  LET seq == w.reqs[id].msg_seq_num
      ins == nccl_ofi_msgbuff_insert(w.r_comm.msgbuff, seq, id, "REQ") IN
  IF ins.res = "INVALID_IDX" /\ ins.stat = "INPROGRESS"
  THEN [w |-> Ok(req_free(w, id, FALSE)), req |-> NULL]
  ELSE IF ins.res # "SUCCESS" THEN [w |-> Fail(w, "EINVAL"), req |-> id]
  ELSE [w |-> Ok([w EXCEPT !.r_comm.msgbuff = ins.mb]), req |-> id]

\* returns [w, req]: req is NULL when the slot was taken in between
insert_rdma_recv_req_into_msgbuff(w, eager, id) ==
  LET seq == w.reqs[id].msg_seq_num IN
  IF eager
  THEN LET rep == nccl_ofi_msgbuff_replace(w.r_comm.msgbuff, seq, id, "REQ") IN
       IF rep.res # "SUCCESS" THEN [w |-> Fail(w, "EINVAL"), req |-> id]
       ELSE [w |-> Ok([w EXCEPT !.r_comm.msgbuff = rep.mb]), req |-> id]
  ELSE LET ins == nccl_ofi_msgbuff_insert(w.r_comm.msgbuff, seq, id, "REQ") IN
       IF ins.res = "INVALID_IDX" /\ ins.stat = "INPROGRESS"
       THEN [w |-> Ok(req_free(w, id, FALSE)), req |-> NULL]
       ELSE IF ins.res # "SUCCESS" THEN [w |-> Fail(w, "EINVAL"), req |-> id]
       ELSE [w |-> Ok([w EXCEPT !.r_comm.msgbuff = ins.mb]), req |-> id]

\* variant: the error exit of recv has already advanced the sequence counter
RecvError_Advance(w, id) ==
  [w |-> [(IF id # NULL /\ id \in DOMAIN w.reqs
           THEN [req_free(w, id, FALSE) EXCEPT !.rc = w.rc] ELSE w)
          EXCEPT !.r_comm.next_msg_seq_num = @ + 1],
   req |-> NULL]

\* the error exit of recv: free the request if there is one, return no request
RecvError(w, id) ==
  [w |-> IF id # NULL /\ id \in DOMAIN w.reqs
         THEN [req_free(w, id, FALSE) EXCEPT !.rc = w.rc] ELSE w,
   req |-> NULL]

\* variant: the sequence counter is not masked to its width
NextSeq_NoWrap(seq) == seq + 1

\* the sequence number of the next call
NextSeq(seq) == (seq + 1) % (MSG_SEQ_NUM_MASK + 1)

\* the part of recv after the request has entered the message buffer
RecvPost(w, id, eager) ==
  Bind({
    IF w2.rc # "OK" THEN RecvError(w2, id)
    ELSE
      Bind({
        IF w3.rc # "OK" THEN RecvError(w3, id)
        ELSE [w |-> [w3 EXCEPT !.r_comm.next_msg_seq_num = NextSeq(@)],
              req |-> id]
      : w3 \in {IF ~eager THEN w2
                ELSE IF w2.reqs[id].eager_copy_req = NULL
                THEN inc_req_completion(w2, id, 0, w2.reqs[id].total_num_compls)
                ELSE receive_progress(w2, w2.reqs[id].eager_copy_req, TRUE)} })
  : w2 \in {receive_progress([w EXCEPT !.r_comm.num_inflight_reqs = @ + 1],
                             w.reqs[id].send_ctrl_req, TRUE)} })

\* the part of recv after the lookup of the slot of the next message, got
\* being what the lookup returned
RecvLookedUp(w1, got, buff, size) ==
  IF got.res = "SUCCESS" /\ got.type # "BUFF"
  THEN [w |-> Fail(w1, "EINVAL"), req |-> NULL]
  ELSE IF got.res # "SUCCESS" /\ got.stat # "NOTSTARTED"
  THEN [w |-> Fail(w1, "EINVAL"), req |-> NULL]
  ELSE
    LET eager == got.res = "SUCCESS" IN
    Bind({
      IF a.w.rc # "OK" THEN RecvError(a.w, a.req)
      ELSE
        Bind({
          IF w2.rc # "OK" THEN RecvError(w2, a.req)
          ELSE
            Bind({
              IF ins.w.rc # "OK" THEN RecvError(ins.w, ins.req)
              ELSE IF ins.req = NULL THEN RecvError(Fail(ins.w, "ENOMEM"), NULL)
              ELSE RecvPost(ins.w, a.req, eager)
            : ins \in {insert_rdma_recv_req_into_msgbuff(w2, eager, a.req)} })
        : w2 \in {IF ~eager THEN a.w
                  ELSE IF got.elem.recv_len = 0
                  THEN check_post_bounce_req(a.w, "R", got.elem.rail)
                  ELSE alloc_eager_copy_req(a.w, a.req, got.elem)} })
    : a \in {allocate_rdma_recv_req(w1, w1.r_comm.next_msg_seq_num, buff, size)} })

\* returns [w, req]; w.rc is the return code
recv(w, buff, size) ==
  IF w.r_comm.num_inflight_reqs = NCCL_OFI_MAX_REQUESTS
  THEN [w |-> Fail(w, "ENOSPC"), req |-> NULL]
  ELSE
    Bind({
      IF w1.rc = "EAGAIN" THEN [w |-> Ok(w1), req |-> NULL]
      ELSE IF w1.rc # "OK" THEN [w |-> w1, req |-> NULL]
      ELSE
        Bind({
          RecvLookedUp(w1, got, buff, size)
        : got \in {nccl_ofi_msgbuff_retrieve(w1.r_comm.msgbuff,
                                             w1.r_comm.next_msg_seq_num)} })
    : w1 \in {process_cq_if_pending(w, "R")} })

\* ------------------------------------------------------------------ send
\* variant: the awaited control message is not counted
alloc_rdma_send_req_NoCtrl(w, msg_seq_num, buff, size, eager, have_ctrl) ==
  LET id == AllocId(w, "S")
      sched == scheduler_get_schedule(w.ep["S"].rr, size)
      w1 == PutReq([w EXCEPT !.ep["S"].rr = sched.rr], id,
              [type |-> "SEND", state |-> "CREATED", size |-> size, ncompls |-> 0,
               msg_seq_num |-> msg_seq_num, xferred_rail_id |-> 0,
               buff |-> buff, buff_len |-> size, schedule |-> sched.xfers,
               eager |-> eager,
               total_num_compls |-> Len(sched.xfers),
               wdata |-> GET_RDMA_WRITE_IMM_DATA(w.s_comm.remote_comm_id, msg_seq_num,
                                                 Len(sched.xfers)),
               remote_buff |-> 0, remote_len |-> 0]) IN
  [w |-> Ok(w1), req |-> id]

\* returns [w, req]
alloc_rdma_send_req(w, msg_seq_num, buff, size, eager, have_ctrl) ==
  LET id == AllocId(w, "S")
      sched == scheduler_get_schedule(w.ep["S"].rr, size)
      w1 == PutReq([w EXCEPT !.ep["S"].rr = sched.rr], id,
              [type |-> "SEND", state |-> "CREATED", size |-> size, ncompls |-> 0,
               msg_seq_num |-> msg_seq_num, xferred_rail_id |-> 0,
               buff |-> buff, buff_len |-> size, schedule |-> sched.xfers,
               eager |-> eager,
               total_num_compls |-> (IF have_ctrl THEN 0 ELSE 1) + Len(sched.xfers),
               wdata |-> GET_RDMA_WRITE_IMM_DATA(w.s_comm.remote_comm_id, msg_seq_num,
                                                 Len(sched.xfers)),
               remote_buff |-> 0, remote_len |-> 0]) IN
  [w |-> Ok(w1), req |-> id]

\* returns [w, req]: req is NULL when the slot was taken in between
insert_rdma_send_req_into_msgbuff(w, have_ctrl, id) ==
  LET seq == w.reqs[id].msg_seq_num IN
  IF have_ctrl
  THEN LET rep == nccl_ofi_msgbuff_replace(w.s_comm.msgbuff, seq, id, "REQ") IN
       IF rep.res # "SUCCESS" THEN [w |-> Fail(w, "EINVAL"), req |-> id]
       ELSE [w |-> Ok([w EXCEPT !.s_comm.msgbuff = rep.mb]), req |-> id]
  ELSE LET ins == nccl_ofi_msgbuff_insert(w.s_comm.msgbuff, seq, id, "REQ") IN
       IF ins.res = "INVALID_IDX" /\ ins.stat = "INPROGRESS"
       THEN [w |-> Ok(req_free(w, id, FALSE)), req |-> NULL]
       ELSE IF ins.res # "SUCCESS" THEN [w |-> Fail(w, "EINVAL"), req |-> id]
       ELSE [w |-> Ok([w EXCEPT !.s_comm.msgbuff = ins.mb]), req |-> id]

\* the error exit of send: free the request if there is one, return no request
SendError(w, id) ==
  [w |-> IF id # NULL /\ id \in DOMAIN w.reqs
         THEN [req_free(w, id, FALSE) EXCEPT !.rc = w.rc] ELSE w,
   req |-> NULL]

\* the part of send after the request has entered the message buffer
SendPost(w, id, have_ctrl, eager) ==
  Bind({
    Bind({
      IF w3.rc # "OK" THEN SendError(w3, id)
      ELSE [w |-> [w3 EXCEPT !.s_comm.next_msg_seq_num = NextSeq(@)],
            req |-> id]
    : w3 \in {IF w2.rc = "EAGAIN" THEN Ok(nccl_ofi_deque_insert_back(w2, "S", id))
              ELSE IF w2.rc # "OK" THEN Fail(w2, "ENOTSUP")
              ELSE w2} })
  : w2 \in {IF have_ctrl \/ eager
            THEN send_progress([w EXCEPT !.s_comm.num_inflight_reqs = @ + 1], "S", id)
            ELSE [w EXCEPT !.s_comm.num_inflight_reqs = @ + 1]} })

\* the part of send after the lookup of the slot of the next message, got
\* being what the lookup returned
SendLookedUp(w1, got, buff, size) ==
  IF got.res = "SUCCESS" /\ got.type # "BUFF"
  THEN [w |-> Fail(w1, "EINVAL"), req |-> NULL]
  ELSE IF got.res # "SUCCESS" /\ got.stat # "NOTSTARTED"
  THEN [w |-> Fail(w1, "EINVAL"), req |-> NULL]
  ELSE
    LET have_ctrl == got.res = "SUCCESS"
        eager == (~have_ctrl /\ size <= eager_max_size) \/ size = 0 IN
    Bind({
      Bind({
        IF w2.rc # "OK" THEN SendError(w2, a.req)
        ELSE
          Bind({
            IF ins.w.rc # "OK" \/ ins.req = NULL THEN SendError(ins.w, ins.req)
            ELSE SendPost(ins.w, a.req, have_ctrl, eager)
          : ins \in {insert_rdma_send_req_into_msgbuff(w2, have_ctrl, a.req)} })
      : w2 \in {IF have_ctrl
                THEN check_post_bounce_req(copy_ctrl_data(a.w, got.elem, a.req),
                                           "S", got.elem.rail)
                ELSE a.w} })
    : a \in {alloc_rdma_send_req(w1, w1.s_comm.next_msg_seq_num, buff, size,
                                 eager, have_ctrl)} })

\* the part of send on a connected communicator
SendConnected(w, buff, size) ==
  Bind({
    IF w1.rc = "EAGAIN" THEN [w |-> Ok(w1), req |-> NULL]
    ELSE IF w1.rc # "OK" THEN [w |-> w1, req |-> NULL]
    ELSE
      Bind({
        SendLookedUp(w1, got, buff, size)
      : got \in {nccl_ofi_msgbuff_retrieve(w1.s_comm.msgbuff,
                                           w1.s_comm.next_msg_seq_num)} })
  : w1 \in {process_cq_if_pending(w, "S")} })

\* variant: send does not look at the number of requests in flight
send_NoCap(w, buff, size) ==
  IF ~w.s_comm.connected
  THEN Bind({
         IF w1.rc # "OK" THEN [w |-> w1, req |-> NULL]
         ELSE IF ~w1.s_comm.connected THEN [w |-> Ok(w1), req |-> NULL]
         ELSE SendConnected(w1, buff, size)
       : w1 \in {ofi_process_cq(w, "S")} })
  ELSE SendConnected(w, buff, size)

\* variant: send does not wait for the connection
send_Early(w, buff, size) ==
  IF w.s_comm.num_inflight_reqs = NCCL_OFI_MAX_SEND_REQUESTS
  THEN [w |-> Fail(w, "EINVAL"), req |-> NULL]
  ELSE IF ~w.s_comm.connected
  THEN Bind({
         IF w1.rc # "OK" THEN [w |-> w1, req |-> NULL]
         ELSE SendConnected(w1, buff, size)
       : w1 \in {ofi_process_cq(w, "S")} })
  ELSE SendConnected(w, buff, size)

\* returns [w, req]; w.rc is the return code
send(w, buff, size) ==
  IF w.s_comm.num_inflight_reqs = NCCL_OFI_MAX_SEND_REQUESTS
  THEN [w |-> Fail(w, "EINVAL"), req |-> NULL]
  ELSE IF ~w.s_comm.connected
  THEN Bind({
         IF w1.rc # "OK" THEN [w |-> w1, req |-> NULL]
         ELSE IF ~w1.s_comm.connected THEN [w |-> Ok(w1), req |-> NULL]
         ELSE SendConnected(w1, buff, size)
       : w1 \in {ofi_process_cq(w, "S")} })
  ELSE SendConnected(w, buff, size)

\* ----------------------------------------------------------------- flush
\* returns [w, req]; size is the first non-zero size of the flushed buffers,
\* or 0 when all of them are empty
flush(w, size) ==
  IF w.r_comm.num_inflight_reqs = NCCL_OFI_MAX_REQUESTS
  THEN [w |-> Fail(w, "ENOSPC"), req |-> NULL]
  ELSE
    Bind({
      LET network_busy == w1.rc = "EAGAIN" IN
      IF w1.rc # "OK" /\ ~network_busy THEN [w |-> w1, req |-> NULL]
      ELSE IF size = 0 THEN [w |-> Ok(w1), req |-> NULL]
      ELSE
        LET id == AllocId(w1, "R")
            sched == scheduler_get_schedule(w1.ep["R"].rr, flush_buff_size) IN
        Bind({
          IF Len(sched.xfers) # 1
          THEN [w |-> Fail(req_free(w2, id, FALSE), "EINVAL"), req |-> NULL]
          ELSE
            Bind({
              IF w3.rc # "OK" THEN [w |-> [req_free(w3, id, FALSE) EXCEPT !.rc = w3.rc],
                                    req |-> NULL]
              ELSE [w |-> [w3 EXCEPT !.r_comm.num_inflight_reqs = @ + 1], req |-> id]
            : w3 \in {IF ~network_busy THEN receive_progress(Ok(w2), id, TRUE)
                      ELSE Ok(nccl_ofi_deque_insert_back(w2, "R", id))} })
        : w2 \in {PutReq([w1 EXCEPT !.ep["R"].rr = sched.rr], id,
                    [type |-> "FLUSH", state |-> "CREATED", size |-> 0, ncompls |-> 0,
                     msg_seq_num |-> 0, schedule |-> sched.xfers])} })
    : w1 \in {process_cq_if_pending(w, "R")} })

\* ------------------------------------------------------------- handshake
\* nccl_ofi_idpool_allocate_id: the smallest identifier not in use
nccl_ofi_idpool_allocate_id(w, e) ==
  CHOOSE i \in 0 .. Cardinality(w.ep[e].ids) :
    /\ i \notin w.ep[e].ids
    /\ \A j \in 0 .. (i - 1) : j \in w.ep[e].ids

\* nccl_ofi_idpool_free_id: the identifier is back in the pool
nccl_ofi_idpool_free_id(w, e, id) ==
  [w EXCEPT !.ep[e].ids = @ \ {id}]

\* set_comm(ep, id, comm) for the identifier just allocated, and
\* set_comm(ep, id, NULL) with the release of id
set_comm(w, e, id, kind) ==
  [w EXCEPT !.ep[e].ids = @ \cup {id},
            !.ep[e].comms = [x \in (DOMAIN @) \cup {id} |-> IF x = id THEN kind ELSE @[x]]]
clear_comm(w, e, id) ==
  nccl_ofi_idpool_free_id(
    [w EXCEPT !.ep[e].comms = [x \in (DOMAIN @) \ {id} |-> @[x]]], e, id)

ConnMsgLen == 1

prepare_send_connect_message(local_comm_id, remote_comm_id) ==
  [type |-> "CONN", local_comm_id |-> local_comm_id,
   remote_comm_id |-> remote_comm_id, num_rails |-> NumRails]

create_send_comm(w) ==
  LET handle_comm_id == w.l_comm.comm_id
      comm_id == nccl_ofi_idpool_allocate_id(w, "S") IN
  IF handle_comm_id >= num_comm_ids THEN Fail(w, "EINVAL")
  ELSE Ok([set_comm(w, "S", comm_id, "s") EXCEPT
            !.s_comm = [alive |-> TRUE, msgbuff |-> EmptyMsgbuff, next_msg_seq_num |-> 0,
                        num_inflight_reqs |-> 0, connected |-> FALSE,
                        local_comm_id |-> comm_id, remote_comm_id |-> handle_comm_id,
                        conn_resp_req |-> NULL,
                        conn_msg |-> prepare_send_connect_message(comm_id, handle_comm_id),
                        num_init_rails |-> 1]])

ConnReq(type) == [type |-> type, state |-> "CREATED", size |-> 0, ncompls |-> 0]

prepare_send_conn_req(w) ==
  LET id == AllocId(w, "S") IN
  [PutReq(w, id, ConnReq("SEND_CONN")) EXCEPT !.conn.req = id]

prepare_recv_conn_resp_req(w) ==
  LET id == AllocId(w, "S") IN
  [PutReq(w, id, ConnReq("RECV_CONN_RESP")) EXCEPT !.s_comm.conn_resp_req = id]

\* variant: the send communicator is closed whatever is in flight
send_close_NoCheck(w) ==
  Bind({
    Ok([clear_comm(w1, "S", w1.s_comm.local_comm_id) EXCEPT !.s_comm.alive = FALSE])
  : w1 \in {IF w.s_comm.conn_resp_req # NULL
            THEN req_free(w, w.s_comm.conn_resp_req, FALSE) ELSE w} })

send_close(w) ==
  IF w.s_comm.num_inflight_reqs > 0 THEN Fail(w, "EINVAL")
  ELSE
    Bind({
      Ok([clear_comm(w1, "S", w1.s_comm.local_comm_id) EXCEPT !.s_comm.alive = FALSE])
    : w1 \in {IF w.s_comm.conn_resp_req # NULL
              THEN req_free(w, w.s_comm.conn_resp_req, FALSE) ELSE w} })

recv_close(w) ==
  IF w.r_comm.num_inflight_reqs > 0 THEN Fail(w, "EINVAL")
  ELSE Ok([clear_comm(w, "R", w.r_comm.local_comm_id) EXCEPT !.r_comm.alive = FALSE])

post_send_conn(w) ==
  Bind({
    IF w1.rc = "EAGAIN"
    THEN Bind({
           IF w2.rc # "OK" THEN Fail(w2, "E2") ELSE Fail(w2, "EAGAIN")
         : w2 \in {ofi_process_cq(w1, "S")} })
    ELSE w1
  : w1 \in {fi_post(w, FabricOp("send", "S", 0, w.conn.req, NoImm, w.s_comm.conn_msg,
                                ConnMsgLen, 0, 0))} })

\* the stages of connect; each returns [w, comm], comm telling whether the
\* send communicator is handed to the caller
ConnectRecvConn(w) ==
  Bind({
    IF w1.rc # "OK" THEN [w |-> w1, comm |-> FALSE]
    ELSE [w |-> [w1 EXCEPT !.conn.stage = "COMM_CONN_RESP_REQ_PENDING"], comm |-> TRUE]
  : w1 \in {ofi_process_cq(w, "S")} })

\* variant: the completion of the CONN send is not waited for
ConnectConnReqPending_NoWait(w) ==
  Bind({
    IF w1.rc # "OK" THEN [w |-> w1, comm |-> FALSE]
    ELSE ConnectRecvConn([w1 EXCEPT !.conn.stage = "COMM_RECV_CONN"])
  : w1 \in {ofi_process_cq(w, "S")} })

ConnectConnReqPending(w) ==
  Bind({
    IF w1.rc # "OK" THEN [w |-> w1, comm |-> FALSE]
    ELSE IF w1.reqs[w1.conn.req].state # "COMPLETED" THEN [w |-> Ok(w1), comm |-> FALSE]
    ELSE ConnectRecvConn([req_free(w1, w1.conn.req, FALSE) EXCEPT
                            !.conn.req = NULL, !.conn.stage = "COMM_RECV_CONN"])
  : w1 \in {ofi_process_cq(w, "S")} })

ConnectSendConn(w) ==
  Bind({
    IF w1.rc = "EAGAIN" THEN [w |-> Ok(w1), comm |-> FALSE]
    ELSE IF w1.rc # "OK"
    THEN [w |-> [send_close(req_free(w1, w1.conn.req, FALSE)) EXCEPT !.rc = w1.rc],
          comm |-> FALSE]
    ELSE ConnectConnReqPending([w1 EXCEPT !.conn.stage = "COMM_CONN_REQ_PENDING"])
  : w1 \in {post_send_conn(prepare_recv_conn_resp_req(w))} })

connect(w) ==
  LET stage == w.conn.stage IN
  IF stage = "COMM_CONNECTED" THEN [w |-> Fail(w, "EINVAL"), comm |-> FALSE]
  ELSE IF stage = "COMM_CREATE_START"
  THEN Bind({
         IF w1.rc # "OK" THEN [w |-> w1, comm |-> FALSE]
         ELSE ConnectSendConn([prepare_send_conn_req(w1) EXCEPT
                                 !.conn.stage = "COMM_SEND_CONN"])
       : w1 \in {create_send_comm(w)} })
  ELSE IF stage = "COMM_SEND_CONN" THEN ConnectSendConn(w)
  ELSE IF stage = "COMM_CONN_REQ_PENDING" THEN ConnectConnReqPending(w)
  ELSE IF stage = "COMM_RECV_CONN" THEN ConnectRecvConn(w)
  ELSE [w |-> Fail(w, "EINVAL"), comm |-> FALSE]

prepare_recv_conn_req(w) ==
  PutReq(w, LReq, [type |-> "RECV_CONN", state |-> "PENDING", size |-> 0, ncompls |-> 0])

\* listen: the listen communicator, its identifier and its request
listen(w) ==
  LET comm_id == nccl_ofi_idpool_allocate_id(w, "R") IN
  Ok(prepare_recv_conn_req(
       [set_comm(w, "R", comm_id, "l") EXCEPT
          !.l_comm = [stage |-> "COMM_CREATE_START", comm_id |-> comm_id,
                      conn_msg |-> NoElem, r_comm |-> FALSE, alive |-> TRUE]]))

prepare_recv_comm(w) ==
  LET conn_msg == w.l_comm.conn_msg
      comm_id == nccl_ofi_idpool_allocate_id(w, "R") IN
  IF conn_msg.local_comm_id >= num_comm_ids THEN Fail(w, "EINVAL")
  ELSE Ok([set_comm(w, "R", comm_id, "r") EXCEPT
            !.r_comm = [alive |-> TRUE, msgbuff |-> EmptyMsgbuff, next_msg_seq_num |-> 0,
                        num_inflight_reqs |-> 0, local_comm_id |-> comm_id,
                        remote_comm_id |-> conn_msg.local_comm_id],
            !.l_comm.r_comm = TRUE])

prepare_send_conn_resp_req(w) ==
  [w EXCEPT !.reqs[LReq] = [@ EXCEPT !.type = "SEND_CONN_RESP", !.size = 0,
                                     !.ncompls = 0, !.state = "CREATED"]]

prepare_conn_resp(w) ==
  [w EXCEPT !.l_comm.conn_msg = [@ EXCEPT !.type = "CONN_RESP", !.num_rails = NumRails]]

post_send_conn_resp(w) ==
  Bind({
    IF w1.rc = "EAGAIN"
    THEN Bind({
           IF w2.rc # "OK" THEN w2 ELSE Fail(w2, "EAGAIN")
         : w2 \in {ofi_process_cq([w1 EXCEPT !.reqs[LReq].state = "CREATED"], "R")} })
    ELSE w1
  : w1 \in {fi_post([w EXCEPT !.reqs[LReq].state = "PENDING"],
                    FabricOp("send", "R", 0, LReq, NoImm, w.l_comm.conn_msg,
                             ConnMsgLen, 0, 0))} })

close_listen_recv_comm(w) ==
  IF w.reqs[LReq].state = "PENDING" THEN Fail(w, "EINVAL")
  ELSE IF w.l_comm.r_comm
  THEN Bind({
         IF w1.rc # "OK" THEN Fail(w1, "EINVAL")
         ELSE Ok([w1 EXCEPT !.l_comm.r_comm = FALSE])
       : w1 \in {recv_close(w)} })
  ELSE Ok(w)

\* the exit of accept: the listen communicator's receive communicator is
\* closed; the return code is that of accept unless accept succeeded
AcceptExit(w, comm) ==
  Bind({
    [w |-> IF w.rc # "OK" THEN [w1 EXCEPT !.rc = w.rc] ELSE w1, comm |-> comm]
  : w1 \in {close_listen_recv_comm(w)} })

AcceptConnRespReqPending(w) ==
  Bind({
    IF w1.rc # "OK" THEN AcceptExit(w1, FALSE)
    ELSE IF w1.reqs[LReq].state # "COMPLETED" THEN [w |-> Ok(w1), comm |-> FALSE]
    ELSE AcceptExit([w1 EXCEPT !.ep["R"].ref_cnt = @ + 1, !.l_comm.r_comm = FALSE,
                               !.l_comm.stage = "COMM_CONNECTED"], TRUE)
  : w1 \in {ofi_process_cq(w, "R")} })

AcceptSendConn(w) ==
  Bind({
    IF w1.rc = "EAGAIN" THEN [w |-> Ok(w1), comm |-> FALSE]
    ELSE IF w1.rc # "OK" THEN AcceptExit(w1, FALSE)
    ELSE AcceptConnRespReqPending([w1 EXCEPT !.l_comm.stage = "COMM_CONN_RESP_REQ_PENDING"])
  : w1 \in {post_send_conn_resp(
              [prepare_conn_resp(w) EXCEPT
                 !.l_comm.conn_msg.local_comm_id = w.r_comm.local_comm_id,
                 !.l_comm.conn_msg.remote_comm_id = w.r_comm.remote_comm_id])} })

AcceptConnReqPending(w) ==
  Bind({
    IF w1.rc # "OK" THEN AcceptExit(w1, FALSE)
    ELSE IF w1.reqs[LReq].state # "COMPLETED" THEN [w |-> Ok(w1), comm |-> FALSE]
    ELSE IF w1.l_comm.conn_msg.num_rails # NumRails THEN AcceptExit(Fail(w1, "EINVAL"), FALSE)
    ELSE Bind({
           IF w2.rc # "OK" THEN AcceptExit(Fail(w2, "EINVAL"), FALSE)
           ELSE AcceptSendConn([prepare_send_conn_resp_req(w2) EXCEPT
                                  !.l_comm.stage = "COMM_SEND_CONN"])
         : w2 \in {prepare_recv_comm(w1)} })
  : w1 \in {ofi_process_cq(w, "R")} })

\* variant: a call that finds the response not yet posted starts again from
\* the wait for the connect message
accept_Again(w) ==
  LET stage == w.l_comm.stage IN
  IF stage = "COMM_CONNECTED" THEN AcceptExit(Fail(w, "EINVAL"), FALSE)
  ELSE IF stage \in {"COMM_CREATE_START", "COMM_RECV_CONN", "COMM_CONN_REQ_PENDING",
                     "COMM_SEND_CONN"}
  THEN AcceptConnReqPending([w EXCEPT !.l_comm.stage = "COMM_CONN_REQ_PENDING"])
  ELSE IF stage = "COMM_CONN_RESP_REQ_PENDING" THEN AcceptConnRespReqPending(w)
  ELSE AcceptExit(Fail(w, "EINVAL"), FALSE)

\* returns [w, comm], comm telling whether the receive communicator is
\* handed to the caller
accept(w) ==
  LET stage == w.l_comm.stage IN
  IF stage = "COMM_CONNECTED" THEN AcceptExit(Fail(w, "EINVAL"), FALSE)
  ELSE IF stage \in {"COMM_CREATE_START", "COMM_RECV_CONN", "COMM_CONN_REQ_PENDING"}
  THEN AcceptConnReqPending([w EXCEPT !.l_comm.stage = "COMM_CONN_REQ_PENDING"])
  ELSE IF stage = "COMM_SEND_CONN" THEN AcceptSendConn(w)
  ELSE IF stage = "COMM_CONN_RESP_REQ_PENDING" THEN AcceptConnRespReqPending(w)
  ELSE AcceptExit(Fail(w, "EINVAL"), FALSE)

\* ------------------------------------------------- endpoint life cycle
RECURSIVE post_bounce_buffs(_, _, _)
post_bounce_buffs(w, e, rail) ==
  IF rail = NumRails THEN Ok(w)
  ELSE Bind({
         IF w1.rc # "OK" THEN w1 ELSE post_bounce_buffs(w1, e, rail + 1)
       : w1 \in {post_bounce_buffs_on_rail(w, e, rail)} })

\* get_ep: the first reference creates the rails, the pending-request queue,
\* the comms array and the id pool, and posts all bounce buffers
get_ep(w, e) ==
  IF w.ep[e].ref_cnt = 0
  THEN Bind({
         IF w1.rc # "OK" THEN w1 ELSE Ok([w1 EXCEPT !.ep[e].ref_cnt = @ + 1])
       : w1 \in {post_bounce_buffs(
                   [w EXCEPT !.ep[e].pending = << >>,
                             !.ep[e].comms = [x \in {} |-> "s"],
                             !.ep[e].ids = {},
                             !.ep[e].nbp = [r \in Rails |-> 0]], e, 0)} })
  ELSE Ok([w EXCEPT !.ep[e].ref_cnt = @ + 1])

\* release_ep: the last reference closes the rails (their posted buffers,
\* completion queues and outstanding operations go with them) and frees the
\* bounce buffers, the id pool, the comms array and the pending-request queue
release_ep(w, e) ==
  IF w.ep[e].ref_cnt - 1 = 0
  THEN Ok([w EXCEPT !.ep[e].ref_cnt = 0,
                    !.ep[e].pending = << >>,
                    !.ep[e].comms = [x \in {} |-> "s"],
                    !.ep[e].ids = {},
                    !.ep[e].nbp = [r \in Rails |-> 0],
                    !.cq[e] = [r \in Rails |-> << >>],
                    !.rx[e] = [r \in Rails |-> 0],
                    !.net = {op \in @ : op.from # e}])
  ELSE Ok([w EXCEPT !.ep[e].ref_cnt = @ - 1])

nccl_net_ofi_listen(w) ==
  Bind({
    IF w1.rc # "OK" THEN w1
    ELSE Bind({
           IF w2.rc # "OK" THEN [release_ep(w2, "R") EXCEPT !.rc = w2.rc] ELSE w2
         : w2 \in {listen(w1)} })
  : w1 \in {get_ep(w, "R")} })

\* returns [w, comm]
nccl_net_ofi_connect(w) ==
  Bind({
    IF w1.rc # "OK" THEN [w |-> w1, comm |-> FALSE]
    ELSE Bind({
           IF r.w.rc # "OK"
           THEN [w |-> [release_ep(r.w, "S") EXCEPT !.rc = r.w.rc], comm |-> FALSE]
           ELSE r
         : r \in {connect(w1)} })
  : w1 \in {IF w.conn.stage = "COMM_CREATE_START" THEN get_ep(w, "S") ELSE w} })

\* returns [w, comm]
nccl_net_ofi_accept(w) ==
  Bind({
    IF r.w.rc # "OK"
    THEN [w |-> [release_ep(r.w, "R") EXCEPT !.rc = r.w.rc], comm |-> FALSE]
    ELSE r
  : r \in {accept(w)} })

\* returns [w, blocked]: blocked tells that the call is still in its loop,
\* after one more round of CQ progress that did not make connected true
\* variant: the call goes on waiting whatever the completions have brought
blocked_send_close_Spin(w) ==
  IF ~w.s_comm.connected
  THEN Bind({
         IF w1.rc # "OK" THEN [w |-> w1, blocked |-> FALSE]
         ELSE [w |-> w1, blocked |-> TRUE]
       : w1 \in {ofi_process_cq(w, "S")} })
  ELSE [w |-> send_close(w), blocked |-> FALSE]

\* one pass of the loop of blocked_send_close; blocked: the loop goes on
blocked_send_close(w) ==
  IF ~w.s_comm.connected
  THEN Bind({
         IF w1.rc # "OK" THEN [w |-> w1, blocked |-> FALSE]
         ELSE IF ~w1.s_comm.connected THEN [w |-> w1, blocked |-> TRUE]
         ELSE [w |-> send_close(w1), blocked |-> FALSE]
       : w1 \in {ofi_process_cq(w, "S")} })
  ELSE [w |-> send_close(w), blocked |-> FALSE]

\* returns [w, blocked]
nccl_net_ofi_closeSend(w) ==
  Bind({
    IF r.blocked \/ r.w.rc # "OK" THEN r
    ELSE [w |-> release_ep(r.w, "S"), blocked |-> FALSE]
  : r \in {blocked_send_close(w)} })

nccl_net_ofi_closeRecv(w) ==
  Bind({
    IF w1.rc # "OK" THEN w1 ELSE release_ep(w1, "R")
  : w1 \in {recv_close(w)} })

listen_close(w) ==
  IF w.reqs[LReq].state = "PENDING" THEN Fail(w, "EINVAL")
  ELSE Bind({
         IF w1.rc # "OK" THEN w1
         ELSE release_ep([nccl_ofi_idpool_free_id(DropReq(w1, LReq), "R",
                                                  w1.l_comm.comm_id)
                            EXCEPT !.l_comm.alive = FALSE], "R")
       : w1 \in {IF w.l_comm.r_comm THEN recv_close(w) ELSE Ok(w)} })

\* ------------------------------------------------ return-value translation
PeerErrors == {"ECONNABORTED", "ECONNRESET", "ECONNREFUSED", "ENOTCONN",
               "EHOSTDOWN", "EHOSTUNREACH"}

\* variant: a connection reset is not told apart from other errors
nccl_net_ofi_retval_translate_NoReset(retval) ==
  IF retval = "OK" THEN "ncclSuccess"
  ELSE IF retval = "EINVAL" THEN "ncclInternalError"
  ELSE IF retval = "EMSGSIZE" THEN "ncclInvalidArgument"
  ELSE IF retval \in PeerErrors \ {"ECONNRESET"} THEN "ncclRemoteError"
  ELSE "ncclSystemError"

nccl_net_ofi_retval_translate(retval) ==
  IF retval = "OK" THEN "ncclSuccess"
  ELSE IF retval = "EINVAL" THEN "ncclInternalError"
  ELSE IF retval = "EMSGSIZE" THEN "ncclInvalidArgument"
  ELSE IF retval \in PeerErrors THEN "ncclRemoteError"
  ELSE "ncclSystemError"

\* ======================================================== the state machine
Credits == {-1} \cup (0 .. MaxCredits)
SendSizes == 0 .. MaxSize
NoByte == <<-1, -1>>

\* the program state after an API call or a fabric step
Commit(w) ==
  /\ ep' = w.ep
  /\ s_comm' = w.s_comm
  /\ r_comm' = w.r_comm
  /\ l_comm' = w.l_comm
  /\ conn' = w.conn
  /\ reqs' = w.reqs
  /\ cq' = w.cq
  /\ net' = w.net
  /\ rx' = w.rx
  /\ faults' = IF w.refused THEN [faults EXCEPT !.busy = @ + 1] ELSE faults

\* the fabric refuses posts in a bounded number of API calls
MayRefuse(c) == c = -1 \/ faults.busy < MaxBusy

ConnResp == [type |-> "CONN_RESP", local_comm_id |-> 1, remote_comm_id |-> 0,
             num_rails |-> NumRails]

\* a connected pair of communicators with nothing in flight whose earlier
\* messages, seq of them modulo the counter's width, are all complete: every
\* rail has its full set of bounce buffers posted
Connected(seq) ==
  /\ ep = [e \in EPS |->
            [ref_cnt |-> IF e = "S" THEN 1 ELSE 2,
             pending |-> << >>,
             nbp |-> [r \in Rails |-> max_bounce_posted],
             rr |-> 0,
             comms |-> IF e = "S" THEN (0 :> "s") ELSE (0 :> "l") @@ (1 :> "r"),
             ids |-> IF e = "S" THEN {0} ELSE {0, 1}]]
  /\ s_comm = [alive |-> TRUE, msgbuff |-> EmptyMsgbuff, next_msg_seq_num |-> seq,
               num_inflight_reqs |-> 0, connected |-> TRUE,
               local_comm_id |-> 0, remote_comm_id |-> 1,
               conn_resp_req |-> NULL, conn_msg |-> ConnResp,
               num_init_rails |-> NumRails]
  /\ r_comm = [alive |-> TRUE, msgbuff |-> EmptyMsgbuff, next_msg_seq_num |-> seq,
               num_inflight_reqs |-> 0,
               local_comm_id |-> 1, remote_comm_id |-> 0]
  /\ l_comm = [stage |-> "COMM_CONNECTED", comm_id |-> 0, conn_msg |-> ConnResp,
               r_comm |-> FALSE, alive |-> TRUE]
  /\ conn = [stage |-> "COMM_CONN_RESP_REQ_PENDING", req |-> NULL]
  /\ reqs = (LReq :> [type |-> "SEND_CONN_RESP", state |-> "COMPLETED",
                      size |-> ConnMsgLen, ncompls |-> 1])
  /\ cq = [e \in EPS |-> [r \in Rails |-> << >>]]
  /\ net = {}
  /\ rx = [e \in EPS |-> [r \in Rails |-> max_bounce_posted]]
  /\ ubuf = [b \in 0 .. (MaxMsgs - 1) |-> [j \in 0 .. (MaxSize - 1) |-> NoByte]]
  /\ user = [sc |-> "open", rc |-> "open", lc |-> "open",
             h |-> [x \in {} |-> NoElem], nsend |-> 0, nrecv |-> 0, nflush |-> 0,
             sizes |-> << >>, early |-> {}, rep |-> {}]
  /\ faults = [err |-> 0, busy |-> 0, codes |-> {}]

\* the pair as connect and accept leave it
Init == Connected(0)

\* the pair at the sequence numbers where the counter or the window of the
\* message buffer wraps within the next messages
SeqStarts ==
  {0, NCCL_OFI_RDMA_MSGBUFF_SIZE - 1, MSG_SEQ_NUM_MASK - 1, MSG_SEQ_NUM_MASK}
InitSeq == \E seq \in SeqStarts : Connected(seq)

\* both endpoints obtained (all bounce buffers posted) and listen called on
\* the receiving one; no communicator but the listen communicator exists
InitListen ==
  /\ ep = [e \in EPS |->
            [ref_cnt |-> 1,
             pending |-> << >>,
             nbp |-> [r \in Rails |-> max_bounce_posted],
             rr |-> 0,
             comms |-> IF e = "S" THEN [x \in {} |-> "s"] ELSE (0 :> "l"),
             ids |-> IF e = "S" THEN {} ELSE {0}]]
  /\ s_comm = [alive |-> FALSE, msgbuff |-> EmptyMsgbuff, next_msg_seq_num |-> 0,
               num_inflight_reqs |-> 0, connected |-> FALSE,
               local_comm_id |-> 0, remote_comm_id |-> 0,
               conn_resp_req |-> NULL, conn_msg |-> NoElem,
               num_init_rails |-> 0]
  /\ r_comm = [alive |-> FALSE, msgbuff |-> EmptyMsgbuff, next_msg_seq_num |-> 0,
               num_inflight_reqs |-> 0,
               local_comm_id |-> 0, remote_comm_id |-> 0]
  /\ l_comm = [stage |-> "COMM_CREATE_START", comm_id |-> 0, conn_msg |-> NoElem,
               r_comm |-> FALSE, alive |-> TRUE]
  /\ conn = [stage |-> "COMM_CREATE_START", req |-> NULL]
  /\ reqs = (LReq :> [type |-> "RECV_CONN", state |-> "PENDING",
                      size |-> 0, ncompls |-> 0])
  /\ cq = [e \in EPS |-> [r \in Rails |-> << >>]]
  /\ net = {}
  /\ rx = [e \in EPS |-> [r \in Rails |-> max_bounce_posted]]
  /\ ubuf = [b \in 0 .. (MaxMsgs - 1) |-> [j \in 0 .. (MaxSize - 1) |-> NoByte]]
  /\ user = [sc |-> "none", rc |-> "none", lc |-> "open",
             h |-> [x \in {} |-> NoElem], nsend |-> 0, nrecv |-> 0, nflush |-> 0,
             sizes |-> << >>, early |-> {}, rep |-> {}]
  /\ faults = [err |-> 0, busy |-> 0, codes |-> {}]

\* no endpoint obtained yet: no rails, no bounce buffers, no communicator
InitNone ==
  /\ ep = [e \in EPS |->
            [ref_cnt |-> 0,
             pending |-> << >>,
             nbp |-> [r \in Rails |-> 0],
             rr |-> 0,
             comms |-> [x \in {} |-> "s"],
             ids |-> {}]]
  /\ s_comm = [alive |-> FALSE, msgbuff |-> EmptyMsgbuff, next_msg_seq_num |-> 0,
               num_inflight_reqs |-> 0, connected |-> FALSE,
               local_comm_id |-> 0, remote_comm_id |-> 0,
               conn_resp_req |-> NULL, conn_msg |-> NoElem,
               num_init_rails |-> 0]
  /\ r_comm = [alive |-> FALSE, msgbuff |-> EmptyMsgbuff, next_msg_seq_num |-> 0,
               num_inflight_reqs |-> 0,
               local_comm_id |-> 0, remote_comm_id |-> 0]
  /\ l_comm = [stage |-> "COMM_CREATE_START", comm_id |-> 0, conn_msg |-> NoElem,
               r_comm |-> FALSE, alive |-> FALSE]
  /\ conn = [stage |-> "COMM_CREATE_START", req |-> NULL]
  /\ reqs = [x \in {} |-> NoElem]
  /\ cq = [e \in EPS |-> [r \in Rails |-> << >>]]
  /\ net = {}
  /\ rx = [e \in EPS |-> [r \in Rails |-> 0]]
  /\ ubuf = [b \in 0 .. (MaxMsgs - 1) |-> [j \in 0 .. (MaxSize - 1) |-> NoByte]]
  /\ user = [sc |-> "none", rc |-> "none", lc |-> "none",
             h |-> [x \in {} |-> NoElem], nsend |-> 0, nrecv |-> 0, nflush |-> 0,
             sizes |-> << >>, early |-> {}, rep |-> {}]
  /\ faults = [err |-> 0, busy |-> 0, codes |-> {}]

\* what a caller does with the outcome of connect or accept: it keeps the
\* communicator, gives up after an error, or calls again
Outcome(r) == IF r.w.rc # "OK" THEN "failed" ELSE IF r.comm THEN "open" ELSE "none"

Connect(c) ==
  /\ user.sc = "none"
  /\ MayRefuse(c)
  /\ \E r \in {connect(World(c))} :
     /\ Commit(r.w)
     /\ user' = [user EXCEPT !.sc = Outcome(r)]
  /\ UNCHANGED ubuf

Accept(c) ==
  /\ user.rc = "none"
  /\ MayRefuse(c)
  /\ \E r \in {accept(World(c))} :
     /\ Commit(r.w)
     /\ user' = [user EXCEPT !.rc = Outcome(r)]
  /\ UNCHANGED ubuf

Hold(id, op, k) ==
  [user EXCEPT !.h = [x \in (DOMAIN user.h) \cup {id} |->
                        IF x = id THEN [op |-> op, k |-> k, res |-> "none"]
                        ELSE user.h[x]]]

\* isend(buffer of the next message, size); a caller that has made all its
\* sends may still call when the communicator is at its limit of requests
Send(size, c) ==
  /\ user.sc = "open"
  /\ user.nsend < MaxMsgs \/ s_comm.num_inflight_reqs = NCCL_OFI_MAX_SEND_REQUESTS
  /\ MayRefuse(c)
  /\ \E r \in {send(World(c), user.nsend, size)} :
     /\ Commit(r.w)
     /\ user' = IF r.req = NULL THEN user
                ELSE [Hold(r.req, "send", user.nsend) EXCEPT
                        !.nsend = @ + 1, !.sizes = Append(@, size),
                        !.early = IF r.w.reqs[r.req].total_num_compls
                                       = Len(r.w.reqs[r.req].schedule)
                                  THEN @ \cup {user.nsend} ELSE @]
  /\ UNCHANGED ubuf

\* irecv(the next user buffer, its capacity); a caller that has made all its
\* recvs may still call when the communicator is at its limit of requests
Recv(c) ==
  /\ user.rc = "open"
  /\ user.nrecv < MaxMsgs \/ r_comm.num_inflight_reqs = NCCL_OFI_MAX_REQUESTS
  /\ MayRefuse(c)
  /\ \E r \in {recv(World(c), user.nrecv, MaxSize)} :
     /\ Commit(r.w)
     /\ user' = IF r.req = NULL THEN user
                ELSE [Hold(r.req, "recv", user.nrecv) EXCEPT !.nrecv = @ + 1]
  /\ UNCHANGED ubuf

\* iflush(buffers whose first non-zero size is size)
Flush(size, c) ==
  /\ user.rc = "open"
  /\ \/ user.nflush < MaxFlush /\ user.nflush < user.nrecv
     \/ r_comm.num_inflight_reqs = NCCL_OFI_MAX_REQUESTS
  /\ MayRefuse(c)
  /\ \E r \in {flush(World(c), size)} :
     /\ Commit(r.w)
     /\ user' = IF r.req = NULL THEN user
                ELSE [Hold(r.req, "flush", user.nflush) EXCEPT !.nflush = @ + 1]
  /\ UNCHANGED ubuf

\* test(request the caller holds); the caller keeps the first error that test
\* reports for the request
Test(id, c) ==
  /\ id \in DOMAIN user.h
  /\ MayRefuse(c)
  /\ \E r \in {test(World(c), id)} :
     /\ Commit(r.w)
     /\ user' = IF r.done = 1 /\ r.w.rc = "OK"
                THEN [user EXCEPT
                        !.h = [x \in (DOMAIN user.h) \ {id} |-> user.h[x]],
                        !.rep = @ \cup {<<user.h[id].op, user.h[id].k, r.size>>}]
                ELSE IF r.w.rc # "OK" /\ user.h[id].res = "none"
                THEN [user EXCEPT
                        !.h[id].res = nccl_net_ofi_retval_translate(r.w.rc)]
                ELSE user
  /\ UNCHANGED ubuf

\* nccl_net_ofi_listen on the receiving side
Listen ==
  /\ user.lc = "none"
  /\ \E w1 \in {nccl_net_ofi_listen(World(-1))} :
       /\ Commit(w1)
       /\ user' = [user EXCEPT !.lc = IF w1.rc = "OK" THEN "open" ELSE "failed"]
  /\ UNCHANGED ubuf

\* nccl_net_ofi_connect with the handle of the listen communicator
OfiConnect ==
  /\ user.sc = "none"
  /\ user.lc = "open"
  /\ \E r \in {nccl_net_ofi_connect(World(-1))} :
       /\ Commit(r.w)
       /\ user' = [user EXCEPT !.sc = Outcome(r)]
  /\ UNCHANGED ubuf

\* nccl_net_ofi_accept on the listen communicator
OfiAccept ==
  /\ user.rc = "none"
  /\ user.lc = "open"
  /\ \E r \in {nccl_net_ofi_accept(World(-1))} :
       /\ Commit(r.w)
       /\ user' = [user EXCEPT !.rc = Outcome(r)]
  /\ UNCHANGED ubuf

\* nccl_net_ofi_closeSend: a call that found connected false is still in
\* its loop ("closing") and makes one more round of CQ progress
CloseSend ==
  /\ user.sc \in {"open", "closing"}
  /\ \E r \in {nccl_net_ofi_closeSend(World(-1))} :
       /\ Commit(r.w)
       /\ user' = [user EXCEPT !.sc = IF r.blocked THEN "closing"
                                      ELSE IF r.w.rc = "OK" THEN "closed"
                                      ELSE IF r.w.s_comm.connected THEN "open"
                                      ELSE "failed"]
  /\ UNCHANGED ubuf

\* nccl_net_ofi_closeRecv
CloseRecv ==
  /\ user.rc = "open"
  /\ \E w1 \in {nccl_net_ofi_closeRecv(World(-1))} :
       /\ Commit(w1)
       /\ user' = [user EXCEPT !.rc = IF w1.rc = "OK" THEN "closed" ELSE @]
  /\ UNCHANGED ubuf

\* nccl_net_ofi_closeListen
CloseListen ==
  /\ user.lc = "open"
  /\ \E w1 \in {listen_close(World(-1))} :
       /\ Commit(w1)
       /\ user' = [user EXCEPT !.lc = IF w1.rc = "OK" THEN "closed" ELSE @]
  /\ UNCHANGED ubuf

\* the bytes of an operation land in a user receive buffer
Land(buf, op) ==
  [buf EXCEPT ![op.dst] = [j \in DOMAIN @ |->
      IF j >= op.off /\ j < op.off + op.len THEN op.msg.bytes[j - op.off + 1] ELSE @[j]]]

\* the completion entries an operation produces
SrcEntry(op, err) ==
  [flags |-> IF op.op = "write" THEN "WRITE" ELSE IF op.op = "read" THEN "READ" ELSE "SEND",
   ctx |-> op.ctx, len |-> op.len, data |-> op.imm, buf |-> NoElem, err |-> err]

DstEntry(op) ==
  [flags |-> IF op.op = "write" THEN "REMOTE_WRITE"
             ELSE IF op.op = "senddata" THEN "RECV_DATA" ELSE "RECV",
   ctx |-> IF op.op = "write" THEN NULL ELSE BounceCtx(op.rail),
   len |-> op.len, data |-> op.imm, buf |-> op.msg, err |-> "OK"]

\* the fabric carries out a posted operation: the data arrives, the target
\* rail gets its completion (a message consumes a posted bounce buffer) and
\* the initiator gets its completion
FabricDeliver(op) ==
  /\ op \in net
  /\ LET to == Peer(op.from) IN
     /\ op.op \in {"send", "senddata"} => rx[to][op.rail] > 0
     /\ net' = net \ {op}
     /\ rx' = IF op.op \in {"send", "senddata"}
              THEN [rx EXCEPT ![to][op.rail] = @ - 1] ELSE rx
     /\ ubuf' = IF op.op = "write" \/ (op.op = "read" /\ op.len > 0)
                THEN Land(ubuf, op) ELSE ubuf
     /\ cq' = IF op.op = "read"
              THEN [cq EXCEPT ![op.from][op.rail] = Append(@, SrcEntry(op, "OK"))]
              ELSE [cq EXCEPT ![op.from][op.rail] = Append(@, SrcEntry(op, "OK")),
                              ![to][op.rail] = Append(@, DstEntry(op))]
  /\ UNCHANGED <<ep, s_comm, r_comm, l_comm, conn, reqs, user, faults>>

\* the errors the fabric reports for a failed operation: one that is a
\* peer-reachability failure and one that is not
FabricErrs == {"EIO", "ECONNRESET"}

\* the fabric fails a posted operation: an error entry for its initiator
FabricFail(op) ==
  /\ op \in net
  /\ faults.err < MaxErrs
  /\ \E err \in FabricErrs :
       /\ faults' = [faults EXCEPT !.err = @ + 1, !.codes = @ \cup {err}]
       /\ cq' = [cq EXCEPT ![op.from][op.rail] = Append(@, SrcEntry(op, err))]
  /\ net' = net \ {op}
  /\ UNCHANGED <<ep, s_comm, r_comm, l_comm, conn, reqs, rx, ubuf, user>>

\* the data path of a connected pair
Next ==
  \/ \E size \in SendSizes, c \in Credits : Send(size, c)
  \/ \E c \in Credits : Recv(c)
  \/ \E id \in DOMAIN user.h, c \in Credits : Test(id, c)
  \/ \E op \in net : FabricDeliver(op)

Spec == Init /\ [][Next]_vars

\* the data path of a connected pair on a fabric that may fail an operation:
\* messages of the largest size, which go over both rails, one receive
ErrNext ==
  \/ \E c \in Credits : Send(MaxSize, c)
  \/ \E c \in Credits : user.nrecv < FullMsgs /\ Recv(c)
  \/ \E id \in DOMAIN user.h, c \in Credits : Test(id, c)
  \/ \E op \in net : FabricDeliver(op)
  \/ \E op \in net : FabricFail(op)

ErrSpec == Init /\ [][ErrNext]_vars

\* connection establishment followed by one message, a flush and a fabric
\* that may fail an operation
FullNext ==
  \/ \E c \in Credits : Connect(c)
  \/ \E c \in Credits : Accept(c)
  \/ \E size \in SendSizes, c \in Credits : user.nsend < FullMsgs /\ Send(size, c)
  \/ \E c \in Credits : user.nrecv < FullMsgs /\ Recv(c)
  \/ \E size \in {0, 1}, c \in Credits : Flush(size, c)
  \/ \E id \in DOMAIN user.h, c \in Credits : Test(id, c)
  \/ \E op \in net : FabricDeliver(op)
  \/ \E op \in net : FabricFail(op)

FullSpec == InitListen /\ [][FullNext]_vars

\* irecv(the next user buffer, a capacity of size bytes)
RecvSized(size) ==
  /\ user.rc = "open"
  /\ user.nrecv < MaxMsgs
  /\ \E r \in {recv(World(-1), user.nrecv, size)} :
     /\ Commit(r.w)
     /\ user' = IF r.req = NULL THEN user
                ELSE [Hold(r.req, "recv", user.nrecv) EXCEPT !.nrecv = @ + 1]
  /\ UNCHANGED ubuf

\* a write that goes beyond the length its request has for the remote buffer
Overrun(op) ==
  /\ op.op = "write" /\ op.ctx \in DOMAIN reqs
  /\ op.off + op.len > reqs[op.ctx].remote_len

\* messages of the largest size between a connected pair whose receiver
\* gives buffers of any capacity, on a fabric that accepts every post and that either carries out
\* or fails a write beyond the registered buffer
SizeNext ==
  \/ Send(MaxSize, -1)
  \/ \E size \in SendSizes : RecvSized(size)
  \/ \E id \in DOMAIN user.h : Test(id, -1)
  \/ \E op \in net : FabricDeliver(op)
  \/ \E op \in net : Overrun(op) /\ FabricFail(op)

SizeSpec == Init /\ [][SizeNext]_vars

\* the data path of a connected pair with flush, on a fabric that accepts
\* every post: the callers issue requests up to the limit of each communicator
\* and keep calling at the limit
CapNext ==
  \/ \E size \in SendSizes : Send(size, -1)
  \/ Recv(-1)
  \/ \E size \in {0, 1} : Flush(size, -1)
  \/ \E id \in DOMAIN user.h : Test(id, -1)
  \/ \E op \in net : FabricDeliver(op)

CapSpec == Init /\ [][CapNext]_vars

\* the data path of a connected pair that has exchanged messages before, on a
\* fabric that accepts every post
SeqNext ==
  \/ \E size \in SendSizes : user.nsend < MaxMsgs /\ Send(size, -1)
  \/ user.nrecv < MaxMsgs /\ Recv(-1)
  \/ \E id \in DOMAIN user.h : Test(id, -1)
  \/ \E op \in net : FabricDeliver(op)

SeqSpec == InitSeq /\ [][SeqNext]_vars

\* the functions of the program that depend on their arguments only: the
\* immediate data of a write is built and taken apart, and a return value is
\* translated for the caller
CommIds == {0, 1, 2 ^ (NUM_COMM_ID_BITS - 1), COMM_ID_MASK}
SeqNums == {0, 1, NCCL_OFI_RDMA_MSGBUFF_SIZE - 1, NCCL_OFI_RDMA_MSGBUFF_SIZE,
            MSG_SEQ_NUM_MASK}
NumSegs == {0, 1, MSG_NUM_SEG_MASK}
Retvals == {"OK", "EINVAL", "EMSGSIZE", "EIO", "ENOSPC", "ENOMEM", "ENOTSUP",
            "EAGAIN"} \cup PeerErrors

InitPure ==
  /\ ep = [e \in EPS |-> [ref_cnt |-> 0, pending |-> << >>,
                          nbp |-> [r \in Rails |-> 0], rr |-> 0,
                          comms |-> [x \in {} |-> "l"], ids |-> {}]]
  /\ s_comm = [alive |-> FALSE]
  /\ r_comm = [alive |-> FALSE]
  /\ l_comm = [alive |-> FALSE]
  /\ conn = [stage |-> "COMM_CREATE_START", req |-> NULL]
  /\ reqs = [x \in {} |-> NoElem]
  /\ cq = [e \in EPS |-> [r \in Rails |-> << >>]]
  /\ net = {}
  /\ rx = [e \in EPS |-> [r \in Rails |-> 0]]
  /\ ubuf = << >>
  /\ faults = [err |-> 0, busy |-> 0, codes |-> {}]
  /\ \E comm_id \in CommIds, seq \in SeqNums, nseg \in NumSegs, retval \in Retvals :
       user = [comm_id |-> comm_id, seq |-> seq, nseg |-> nseg, retval |-> retval,
               imm |-> NoImm, built |-> FALSE,
               out |-> [comm_id |-> 0, seq |-> 0, nseg |-> 0], read |-> FALSE,
               res |-> "none"]

BuildImm ==
  /\ ~user.built
  /\ user' = [user EXCEPT
                !.imm = GET_RDMA_WRITE_IMM_DATA(user.comm_id, user.seq, user.nseg),
                !.built = TRUE]
  /\ UNCHANGED <<ep, s_comm, r_comm, l_comm, conn, reqs, cq, net, rx, ubuf, faults>>

ReadImm ==
  /\ user.built /\ ~user.read
  /\ user' = [user EXCEPT
                !.out = [comm_id |-> GET_COMM_ID_FROM_IMM(user.imm),
                         seq |-> GET_SEQ_NUM_FROM_IMM(user.imm),
                         nseg |-> GET_NUM_SEG_FROM_IMM(user.imm)],
                !.read = TRUE]
  /\ UNCHANGED <<ep, s_comm, r_comm, l_comm, conn, reqs, cq, net, rx, ubuf, faults>>

Translate ==
  /\ user.res = "none"
  /\ user' = [user EXCEPT !.res = nccl_net_ofi_retval_translate(user.retval)]
  /\ UNCHANGED <<ep, s_comm, r_comm, l_comm, conn, reqs, cq, net, rx, ubuf, faults>>

PureNext == BuildImm \/ ReadImm \/ Translate

PureSpec == InitPure /\ [][PureNext]_vars

\* ---- calls on a communicator while another thread tests its requests
\* The caller of send or recv has looked up the slot of the next message
\* (user.call holds what it found) and has not yet entered its request; in
\* between, test called from another thread may process completions.
NoCall == [op |-> "none"]

InitRace ==
  /\ Connected(0)!1 /\ Connected(0)!2 /\ Connected(0)!3 /\ Connected(0)!4
  /\ Connected(0)!5 /\ Connected(0)!6 /\ Connected(0)!7 /\ Connected(0)!8
  /\ Connected(0)!9 /\ Connected(0)!10 /\ Connected(0)!12
  /\ user = [sc |-> "open", rc |-> "open", lc |-> "open",
             h |-> [x \in {} |-> NoElem], nsend |-> 0, nrecv |-> 0, nflush |-> 0,
             sizes |-> << >>, early |-> {}, rep |-> {},
             scall |-> NoCall, rcall |-> NoCall, lost |-> {}]

\* isend up to and including the lookup of the slot
SendLookup(size) ==
  /\ user.sc = "open" /\ user.scall = NoCall
  /\ user.nsend < MaxMsgs
  /\ s_comm.num_inflight_reqs < NCCL_OFI_MAX_SEND_REQUESTS
  /\ \E w1 \in {process_cq_if_pending(World(-1), "S")} :
       /\ Commit(Ok(w1))
       /\ user' = IF w1.rc # "OK" THEN user
                  ELSE [user EXCEPT !.scall =
                          [op |-> "send", size |-> size,
                           got |-> nccl_ofi_msgbuff_retrieve(
                                     w1.s_comm.msgbuff, w1.s_comm.next_msg_seq_num)]]
  /\ UNCHANGED ubuf

\* the rest of isend; a call that returns no request although the fabric
\* refused nothing has lost its slot (user.lost keeps how it returned)
SendInsert ==
  /\ user.scall # NoCall
  /\ \E r \in {SendLookedUp(World(-1), user.scall.got, user.nsend, user.scall.size)} :
       /\ Commit(r.w)
       /\ user' = IF r.req = NULL
                  THEN [user EXCEPT !.scall = NoCall,
                                    !.lost = @ \cup {<<"send", user.nsend, r.w.rc>>}]
                  ELSE [Hold(r.req, "send", user.nsend) EXCEPT
                          !.scall = NoCall,
                          !.nsend = @ + 1, !.sizes = Append(@, user.scall.size),
                          !.early = IF r.w.reqs[r.req].total_num_compls
                                         = Len(r.w.reqs[r.req].schedule)
                                    THEN @ \cup {user.nsend} ELSE @]
  /\ UNCHANGED ubuf

\* irecv up to and including the lookup of the slot
RecvLookup ==
  /\ user.rc = "open" /\ user.rcall = NoCall
  /\ user.nrecv < MaxMsgs
  /\ r_comm.num_inflight_reqs < NCCL_OFI_MAX_REQUESTS
  /\ \E w1 \in {process_cq_if_pending(World(-1), "R")} :
       /\ Commit(Ok(w1))
       /\ user' = IF w1.rc # "OK" THEN user
                  ELSE [user EXCEPT !.rcall =
                          [op |-> "recv",
                           got |-> nccl_ofi_msgbuff_retrieve(
                                     w1.r_comm.msgbuff, w1.r_comm.next_msg_seq_num)]]
  /\ UNCHANGED ubuf

\* the rest of irecv
RecvInsert ==
  /\ user.rcall # NoCall
  /\ \E r \in {RecvLookedUp(World(-1), user.rcall.got, user.nrecv, MaxSize)} :
       /\ Commit(r.w)
       /\ user' = IF r.req = NULL
                  THEN [user EXCEPT !.rcall = NoCall,
                                    !.lost = @ \cup {<<"recv", user.nrecv, r.w.rc>>}]
                  ELSE [Hold(r.req, "recv", user.nrecv) EXCEPT
                          !.rcall = NoCall, !.nrecv = @ + 1]
  /\ UNCHANGED ubuf

RaceNext ==
  \/ \E size \in SendSizes : SendLookup(size)
  \/ SendInsert
  \/ RecvLookup
  \/ RecvInsert
  \/ \E id \in DOMAIN user.h : Test(id, -1)
  \/ \E op \in net : FabricDeliver(op)

RaceSpec == InitRace /\ [][RaceNext]_vars

\* ---- the bounce-buffer pool of one endpoint
\* The endpoint is created, which posts the buffers of every rail; after
\* that messages arrive in posted buffers, and the handler of a message
\* either keeps the buffer for later (a control message or an eager message
\* that waits for its request, an eager message that is being copied) or
\* posts it again at once; a buffer that was kept is given back when its
\* message has been consumed; the progress engine posts what the fabric
\* refused. user.held counts the buffers kept on each rail, user.burst is
\* the largest number kept at a time, user.start is the posted count of
\* each rail when the endpoint was created.
InitPool ==
  /\ InitNone!1 /\ InitNone!2 /\ InitNone!3 /\ InitNone!4 /\ InitNone!5
  /\ InitNone!6 /\ InitNone!7 /\ InitNone!8 /\ InitNone!9 /\ InitNone!10
  /\ InitNone!12
  /\ user = [pool |-> "none", start |-> [r \in Rails |-> 0],
             held |-> [r \in Rails |-> 0], burst |-> [r \in Rails |-> 0]]

PoolRefuse(c) == c = -1 \/ faults.busy < MaxPoolBusy

\* get_ep for the first communicator of an endpoint
PoolCreate(e, c) ==
  /\ user.pool = "none"
  /\ PoolRefuse(c)
  /\ \E w1 \in {get_ep(World(c), e)} :
       /\ Commit(w1)
       /\ user' = [user EXCEPT !.pool = e, !.start = w1.ep[e].nbp]
  /\ UNCHANGED ubuf

\* a message has arrived in a posted buffer of the rail and its handler
\* keeps the buffer: decrease_bounce_buff_cnt
PoolHold(rail, c) ==
  /\ user.pool # "none" /\ rx[user.pool][rail] > 0
  /\ user.held[rail] < MaxHeld
  /\ PoolRefuse(c)
  /\ \E w1 \in {decrease_bounce_buff_cnt(
                    [World(c) EXCEPT !.rx[user.pool][rail] = @ - 1],
                    user.pool, rail)} :
       /\ Commit(w1)
       /\ user' = [user EXCEPT !.held[rail] = @ + 1,
                               !.burst[rail] = IF @ > user.held[rail]
                                               THEN @ ELSE user.held[rail] + 1]
  /\ UNCHANGED ubuf

\* a message has arrived in a posted buffer of the rail and its handler
\* is done with it: repost_bounce_buff
PoolRepost(rail, c) ==
  /\ user.pool # "none" /\ rx[user.pool][rail] > 0
  /\ PoolRefuse(c)
  /\ \E w1 \in {repost_bounce_buff(
                    [World(c) EXCEPT !.rx[user.pool][rail] = @ - 1],
                    user.pool, rail)} :
       /\ Commit(w1)
       /\ user' = user
  /\ UNCHANGED ubuf

\* the message of a buffer that was kept has been consumed:
\* check_post_bounce_req
PoolRelease(rail, c) ==
  /\ user.pool # "none" /\ user.held[rail] > 0
  /\ PoolRefuse(c)
  /\ \E w1 \in {check_post_bounce_req(World(c), user.pool, rail)} :
       /\ Commit(w1)
       /\ user' = [user EXCEPT !.held[rail] = @ - 1]
  /\ UNCHANGED ubuf

\* the progress engine runs on the endpoint: ofi_process_cq
PoolProgress(c) ==
  /\ user.pool # "none"
  /\ PoolRefuse(c)
  /\ \E w1 \in {ofi_process_cq(World(c), user.pool)} :
       /\ Commit(w1)
       /\ user' = user
  /\ UNCHANGED ubuf

PoolNext ==
  \/ \E e \in EPS, c \in Credits : PoolCreate(e, c)
  \/ \E rail \in Rails, c \in Credits : PoolHold(rail, c)
  \/ \E rail \in Rails, c \in Credits : PoolRepost(rail, c)
  \/ \E rail \in Rails, c \in Credits : PoolRelease(rail, c)
  \/ \E c \in Credits : PoolProgress(c)

PoolSpec == InitPool /\ [][PoolNext]_vars

\* the life of a connection on a fabric that accepts every post and may fail
\* an operation: listen, connect and accept, one message, and the closing of
\* the three communicators at any time
LifeNext ==
  \/ Listen
  \/ OfiConnect
  \/ OfiAccept
  \/ \E size \in SendSizes : user.nsend < FullMsgs /\ Send(size, -1)
  \/ user.nrecv < FullMsgs /\ Recv(-1)
  \/ \E id \in DOMAIN user.h : Test(id, -1)
  \/ CloseSend
  \/ CloseRecv
  \/ CloseListen
  \/ \E op \in net : FabricDeliver(op)
  \/ \E op \in net : FabricFail(op)

LifeSpec == InitNone /\ [][LifeNext]_vars

\* connection establishment and one message on a fabric that fails nothing;
\* the callers keep calling, the fabric keeps delivering, and it refuses posts
\* in a bounded number of calls only
LiveNext ==
  \/ \E c \in Credits : Connect(c)
  \/ \E c \in Credits : Accept(c)
  \/ \E size \in SendSizes, c \in Credits : user.nsend < FullMsgs /\ Send(size, c)
  \/ \E c \in Credits : user.nrecv < FullMsgs /\ Recv(c)
  \/ \E size \in {0, 1}, c \in Credits : Flush(size, c)
  \/ \E id \in DOMAIN user.h, c \in Credits : Test(id, c)
  \/ \E op \in net : FabricDeliver(op)

\* whether a call that ends in world w changes the program state
Changes(w) ==
  \/ w.ep # ep \/ w.s_comm # s_comm \/ w.r_comm # r_comm \/ w.l_comm # l_comm
  \/ w.conn # conn \/ w.reqs # reqs \/ w.cq # cq \/ w.net # net \/ w.rx # rx
  \/ w.refused

\* some call of LiveNext would change the state, or the fabric can deliver
CanStep ==
  \/ \E c \in Credits :
       /\ MayRefuse(c)
       /\ \/ /\ user.sc = "none"
             /\ \E r \in {connect(World(c))} : Changes(r.w) \/ Outcome(r) # "none"
          \/ /\ user.rc = "none"
             /\ \E r \in {accept(World(c))} : Changes(r.w) \/ Outcome(r) # "none"
          \/ /\ user.sc = "open" /\ user.nsend < FullMsgs
             /\ \E size \in SendSizes : Changes(send(World(c), user.nsend, size).w)
          \/ user.rc = "open" /\ user.nrecv < FullMsgs /\ Changes(recv(World(c), user.nrecv, MaxSize).w)
          \/ /\ user.rc = "open" /\ user.nflush < MaxFlush /\ user.nflush < user.nrecv
             /\ \E size \in {0, 1} : Changes(flush(World(c), size).w)
          \/ \E id \in DOMAIN user.h : Changes(test(World(c), id).w)
  \/ \E op \in net : op.op \in {"send", "senddata"} => rx[Peer(op.from)][op.rail] > 0

\* The fabric delivers every posted message (weak fairness of delivery), and
\* the callers keep calling: weak fairness of LiveNext, with its enabling
\* condition written out as the state predicate CanStep, so that as long as
\* some step can change the state, one is taken.
LiveSpec ==
  /\ InitListen
  /\ [][LiveNext]_vars
  /\ WF_vars(\E op \in net : FabricDeliver(op))
  /\ ([]<>(~CanStep) \/ []<><<LiveNext>>_vars)

\* CanStep is the enabling condition of <<LiveNext>>_vars: no step changes
\* the state where CanStep is false
CanStepIsEnabled == [][CanStep]_vars

\* ================================================================ claims
\* the indices of the messages, and the requests a caller holds for call k
Msgs == 0 .. (MaxMsgs - 1)
Held(op, k) == {id \in DOMAIN user.h : user.h[id].op = op /\ user.h[id].k = k}

\* C1: the payload of the k-th successful send is delivered into the buffer
\* of the k-th successful recv and into no other buffer: a user buffer only
\* ever holds bytes of the message with its own index, each at its own
\* offset, and a recv reported done has the size and all bytes of that send.
C1_Matching ==
  /\ \A b \in Msgs : \A j \in 0 .. (MaxSize - 1) : ubuf[b][j] \in {NoByte, <<b, j>>}
  /\ \A k \in Msgs : \A n \in 0 .. MaxSize :
       <<"recv", k, n>> \in user.rep =>
         /\ k < Len(user.sizes)
         /\ n = user.sizes[k + 1]
         /\ \A j \in 0 .. (n - 1) : ubuf[k][j] = <<k, j>>

\* C1 witness: the first message has landed in the first buffer and the second
\* recv was reported done with the second message
C1_Witness ==
  /\ ubuf[0][0] = <<0, 0>>
  /\ <<"recv", 1, 1>> \in user.rep

\* C2 as stated: the recv matched to a later send never reaches COMPLETED
\* before the recv matched to an earlier send.
C2_CompletionOrder ==
  \A a, b \in Msgs : \A ia \in Held("recv", a), ib \in Held("recv", b) :
    (a < b /\ reqs[ib].state = "COMPLETED") => reqs[ia].state = "COMPLETED"

\* C2 amended: messages are matched in call order. The request of the k-th
\* recv call and of the k-th send call carry sequence number k, and a recv
\* request that reaches COMPLETED has accumulated the size of the k-th send,
\* whatever the order in which the recv requests complete.
C2_MatchingOrder ==
  \A k \in Msgs :
    /\ \A id \in Held("send", k) : reqs[id].msg_seq_num = k % (MSG_SEQ_NUM_MASK + 1)
    /\ \A id \in Held("recv", k) :
         /\ reqs[id].msg_seq_num = k % (MSG_SEQ_NUM_MASK + 1)
         /\ reqs[id].state = "COMPLETED" =>
              k < Len(user.sizes) /\ reqs[id].size = user.sizes[k + 1]

\* C2 witness: the second recv is COMPLETED while the first one is not
C2_Witness ==
  \E ia \in Held("recv", 0), ib \in Held("recv", 1) :
    reqs[ib].state = "COMPLETED" /\ reqs[ia].state # "COMPLETED"

Absorbed(r, e, none) ==
  /\ r.w.rc # "EAGAIN"
  /\ (r.w.refused /\ r.w.rc = "OK") => (r.w.ep[e].pending # << >> \/ none)

\* C7: no invocation of send, recv, flush, test, connect or accept returns
\* EAGAIN, whatever the fabric accepts during the call; a call during which
\* the fabric refused a post and that succeeds leaves a request on the
\* pending-request queue or returns no request.
C7_NoEagain ==
  \A c \in Credits :
    /\ user.sc = "none" =>
         \A r \in {connect(World(c))} : Absorbed(r, "S", ~r.comm)
    /\ user.rc = "none" =>
         \A r \in {accept(World(c))} : Absorbed(r, "R", ~r.comm)
    /\ user.sc = "open" =>
         \A size \in SendSizes :
           \A r \in {send(World(c), user.nsend, size)} : Absorbed(r, "S", r.req = NULL)
    /\ user.rc = "open" =>
         /\ \A r \in {recv(World(c), user.nrecv, MaxSize)} : Absorbed(r, "R", r.req = NULL)
         /\ \A size \in {0, 1} :
              \A r \in {flush(World(c), size)} : Absorbed(r, "R", r.req = NULL)
    /\ \A id \in DOMAIN user.h :
         \A r \in {test(World(c), id)} : Absorbed(r, id[1], FALSE)

\* C7 witness: the fabric refused a post during a call and a request of a
\* caller waits on the pending-request queue
C7_Witness ==
  /\ faults.busy > 0
  /\ \E e \in EPS : \E i \in 1 .. Len(ep[e].pending) : ep[e].pending[i] \in DOMAIN user.h

\* num_inflight_reqs of the communicator that owns request id
Inflight(w, id) ==
  IF id[1] = "S" THEN w.s_comm.num_inflight_reqs ELSE w.r_comm.num_inflight_reqs

\* the status of the message-buffer slot of request req
SlotStat(w, req) ==
  MbSlot(IF req.type = "SEND" THEN w.s_comm.msgbuff ELSE w.r_comm.msgbuff,
         req.msg_seq_num).stat

\* C8: test on a COMPLETED request returns done=1 with the accumulated size;
\* a test that returns done=1 has moved the request's message-buffer slot to
\* COMPLETE (FLUSH requests have no slot) and freed the request; test on a
\* request that after the CQ drain is neither COMPLETED nor ERROR returns
\* done=0 and leaves the request allocated and counted in flight.
C8_Test ==
  \A id \in DOMAIN user.h : \A c \in Credits :
    \A r \in {test(World(c), id)} :
    /\ reqs[id].state = "COMPLETED" => (r.done = 1 /\ r.size = reqs[id].size)
    /\ r.done = 1 =>
         /\ r.w.rc = "OK"
         /\ id \notin DOMAIN r.w.reqs
         /\ Inflight(r.w, id) = Inflight(World(c), id) - 1
         /\ reqs[id].type # "FLUSH" => SlotStat(r.w, reqs[id]) = "COMPLETE"
    /\ (id \in DOMAIN r.w.reqs /\ r.w.reqs[id].state \notin {"COMPLETED", "ERROR"}) =>
         /\ r.done = 0
         /\ Inflight(r.w, id) = Inflight(World(c), id)
         /\ reqs[id].type # "FLUSH" => SlotStat(r.w, reqs[id]) = "INPROGRESS"
    /\ (r.done = 0 /\ r.w.rc = "OK") =>
         (id \in DOMAIN r.w.reqs /\ r.w.reqs[id].state \notin {"COMPLETED", "ERROR"})

\* C8 witness: test reported the SEND request done, and the caller holds a
\* RECV request that is COMPLETED and a FLUSH request that is not
C8_Witness ==
  /\ \E n \in 1 .. MaxSize : <<"send", 0, n>> \in user.rep
  /\ \E id \in DOMAIN user.h : reqs[id].type = "RECV" /\ reqs[id].state = "COMPLETED"
  /\ \E id \in DOMAIN user.h : reqs[id].type = "FLUSH" /\ reqs[id].state # "COMPLETED"

\* C9 as stated: a failed user operation puts its request in ERROR, for a
\* failed SEND_CTRL, RECV_SEGMS or EAGER_COPY sub-request also the owning RECV
\* request; test on a request in ERROR returns an error and never done=1.
C9_ErrorSurfaces ==
  /\ \A id \in DOMAIN reqs :
       (reqs[id].type \in {"SEND_CTRL", "RECV_SEGMS", "EAGER_COPY"}
          /\ reqs[id].state = "ERROR") => reqs[reqs[id].recv_req].state = "ERROR"
  /\ \A id \in DOMAIN user.h : \A c \in Credits :
       reqs[id].state = "ERROR" =>
         \A r \in {test(World(c), id)} : r.w.rc # "OK" /\ r.done = 0

\* C10 as stated: test frees a SEND, RECV or FLUSH request it observes
\* COMPLETED or in ERROR, and the request stops counting as in flight.
C10_FreedOnTerminal ==
  \A id \in DOMAIN user.h : \A c \in Credits :
    reqs[id].state \in {"COMPLETED", "ERROR"} =>
      \A r \in {test(World(c), id)} :
        /\ id \notin DOMAIN r.w.reqs
        /\ Inflight(r.w, id) = Inflight(World(c), id) - 1

\* test has reported the first send and the first recv done, each with the
\* size of the first message
Done0 ==
  /\ user.nsend > 0
  /\ <<"send", 0, user.sizes[1]>> \in user.rep
  /\ <<"recv", 0, user.sizes[1]>> \in user.rep

\* C3: for a single message the order of the calls does not matter: whether
\* send found the receiver's CTRL already in its slot or the CTRL found the
\* SEND request there, once both calls were made both requests are
\* eventually reported done by test with the message size.
C3_EitherOrder ==
  \A ctrl_first \in BOOLEAN :
    (user.nsend > 0 /\ user.nrecv > 0 /\ ((0 \in user.early) <=> ctrl_first)) ~> Done0

\* C3 witness: send found the CTRL in its slot, and both sides were reported
\* done with the size of a message of more than eager size
C3_Witness == Done0 /\ 0 \in user.early /\ user.sizes[1] = MaxSize

\* every call was made and reported: each message was sent, received and
\* flushed, and test reported each request done with the message size
AllReported ==
  /\ user.nsend = FullMsgs /\ user.nrecv = FullMsgs /\ user.nflush = MaxFlush
  /\ \A k \in 0 .. (FullMsgs - 1) :
       /\ <<"send", k, user.sizes[k + 1]>> \in user.rep
       /\ <<"recv", k, user.sizes[k + 1]>> \in user.rep
  /\ <<"flush", 0, 0>> \in user.rep

C11_CapRejects ==
  /\ s_comm.num_inflight_reqs = NCCL_OFI_MAX_SEND_REQUESTS =>
       \A size \in SendSizes : \A r \in {send(World(-1), user.nsend, size)} :
         r.w.rc = "ENOSPC" /\ r.req = NULL /\ ~Changes(r.w)
  /\ r_comm.num_inflight_reqs = NCCL_OFI_MAX_REQUESTS =>
       \A r \in {recv(World(-1), user.nrecv, MaxSize)} :
         r.w.rc = "ENOSPC" /\ r.req = NULL /\ ~Changes(r.w)

\* C12: after any sequence of send, recv, flush and test calls, the number
\* of requests in flight of the send communicator is at most
\* NCCL_OFI_MAX_SEND_REQUESTS and that of the receive communicator at most
\* NCCL_OFI_MAX_REQUESTS; it counts the requests the callers hold.
C12_InflightBounded ==
  /\ s_comm.num_inflight_reqs <= NCCL_OFI_MAX_SEND_REQUESTS
  /\ r_comm.num_inflight_reqs <= NCCL_OFI_MAX_REQUESTS
  /\ s_comm.num_inflight_reqs = Cardinality({id \in DOMAIN user.h : id[1] = "S"})
  /\ r_comm.num_inflight_reqs = Cardinality({id \in DOMAIN user.h : id[1] = "R"})

\* C12 witness: both communicators are at their limit, the receive
\* communicator with a flush among its requests, after a request was tested
C12_Witness ==
  /\ s_comm.num_inflight_reqs = NCCL_OFI_MAX_SEND_REQUESTS
  /\ r_comm.num_inflight_reqs = NCCL_OFI_MAX_REQUESTS
  /\ \E id \in DOMAIN user.h : user.h[id].op = "flush"
  /\ user.rep # {}

\* C13: close on a send or receive communicator with requests in flight
\* returns an error and changes nothing: the communicator, its identifier,
\* its requests and the endpoint's reference count stay as they are.
C13_CloseRefuses ==
  /\ (s_comm.alive /\ s_comm.num_inflight_reqs > 0) =>
       \A r \in {nccl_net_ofi_closeSend(World(-1))} :
         r.w.rc # "OK" /\ ~r.blocked /\ ~Changes(r.w)
  /\ (r_comm.alive /\ r_comm.num_inflight_reqs > 0) =>
       \A w1 \in {nccl_net_ofi_closeRecv(World(-1))} :
         w1.rc # "OK" /\ ~Changes(w1)

\* C13 witness: both callers hold their communicator with a request in
\* flight, where close is refused
C13_Witness ==
  /\ user.sc = "open" /\ s_comm.alive /\ s_comm.num_inflight_reqs > 0
  /\ user.rc = "open" /\ r_comm.alive /\ r_comm.num_inflight_reqs > 0
  /\ nccl_net_ofi_closeSend(World(-1)).w.rc = "EINVAL"
  /\ nccl_net_ofi_closeRecv(World(-1)).rc = "EINVAL"

\* C14 as stated: the reference count of an endpoint is 0 if and only if
\* every communicator created against it has been closed.
C14_RefCount ==
  /\ (ep["S"].ref_cnt = 0) <=> ~s_comm.alive
  /\ (ep["R"].ref_cnt = 0) <=> ~(l_comm.alive \/ r_comm.alive)

\* the sequence numbers of the messages in progress in a message buffer
InProgress(mb) == {seq \in DOMAIN mb : mb[seq].stat = "INPROGRESS"}

C16_ImmRoundTrip ==
  /\ user.built =>
        user.imm = [hi |-> user.nseg,
                    lo |-> user.comm_id * 2 ^ NUM_MSG_SEQ_NUM_BITS + user.seq]
  /\ user.read =>
        user.out = [comm_id |-> user.comm_id, seq |-> user.seq, nseg |-> user.nseg]

\* the largest identifier, sequence number and segment count went through
C16_Witness ==
  /\ user.read
  /\ user.comm_id = 2 ^ 18 - 1 /\ user.seq = 2 ^ 10 - 1 /\ user.nseg = 2 ^ 4 - 1

\* C18 as stated: the six peer-reachability errors and no other value are
\* translated to the remote error, EINVAL to the internal error and every
\* other non-zero value to the system error.
C18_Original ==
  user.res # "none" =>
    /\ (user.res = "ncclRemoteError") <=> (user.retval \in PeerErrors)
    /\ user.retval = "EINVAL" => user.res = "ncclInternalError"
    /\ user.retval \notin PeerErrors \cup {"EINVAL", "OK"} =>
          user.res = "ncclSystemError"

\* C18: the six peer-reachability errors and no other value are translated to
\* the remote error, EINVAL to the internal error, EMSGSIZE to the invalid
\* argument error and every other non-zero value to the system error.
C18_Translate ==
  user.res # "none" =>
    /\ (user.res = "ncclRemoteError") <=> (user.retval \in PeerErrors)
    /\ user.retval = "EINVAL" => user.res = "ncclInternalError"
    /\ user.retval = "EMSGSIZE" => user.res = "ncclInvalidArgument"
    /\ user.retval \notin PeerErrors \cup {"EINVAL", "EMSGSIZE", "OK"} =>
          user.res = "ncclSystemError"

\* a connection reset has been translated
C18_Witness == user.retval = "ECONNRESET" /\ user.res # "none"

\* C17 as stated: when the only failures of the fabric are peer-reachability
\* failures and one of them has put a request the caller holds into the error
\* state, the error that test on that request reports to the caller is the
\* remote error.
C17_PeerError ==
  \A id \in DOMAIN user.h :
    (faults.codes # {} /\ faults.codes \subseteq PeerErrors
       /\ id \in DOMAIN reqs /\ reqs[id].state = "ERROR"
       /\ user.h[id].res # "none") =>
      user.h[id].res = "ncclRemoteError"

\* C19 as stated: no call waits for the peer or the fabric; close on a send
\* communicator, its handshake finished or not, returns after one pass over
\* the completions.
C19_NonBlocking ==
  (s_comm.alive /\ user.sc \in {"open", "closing"}) =>
    \A r \in {nccl_net_ofi_closeSend(World(-1))} : ~r.blocked

\* C19: close on a send communicator goes on processing completions only as
\* long as the handshake of the communicator has not finished and no
\* completion has reported an error; on a connected communicator it returns
\* after one pass.
C19_CloseWaits ==
  (s_comm.alive /\ user.sc \in {"open", "closing"}) =>
    \A r \in {nccl_net_ofi_closeSend(World(-1))} :
      /\ r.blocked => (~r.w.s_comm.connected /\ r.w.rc = "OK")
      /\ s_comm.connected => ~r.blocked

\* close has been called on a send communicator whose handshake has not
\* finished, and the call has not returned
C19_Witness == user.sc = "closing" /\ s_comm.alive /\ ~s_comm.connected

\* the position of a stage in a sequence of stages
Rank(stages, stage) == CHOOSE i \in 1 .. Len(stages) : stages[i] = stage

\* C20 as stated: on the connecting side and on the accepting side the stage
\* never moves back in the order CREATE_START, SEND_CONN, CONN_REQ_PENDING,
\* RECV_CONN, CONN_RESP_REQ_PENDING, CONNECTED.
C20_SameOrder ==
  [][\A order \in {<<"COMM_CREATE_START", "COMM_SEND_CONN", "COMM_CONN_REQ_PENDING",
                      "COMM_RECV_CONN", "COMM_CONN_RESP_REQ_PENDING",
                      "COMM_CONNECTED">>} :
       /\ Rank(order, conn'.stage) >= Rank(order, conn.stage)
       /\ Rank(order, l_comm'.stage) >= Rank(order, l_comm.stage)]_vars

\* C20: the stage never moves back, on the connecting side in the order
\* CREATE_START, SEND_CONN, CONN_REQ_PENDING, RECV_CONN, CONN_RESP_REQ_PENDING,
\* CONNECTED and on the accepting side in the order CREATE_START, RECV_CONN,
\* CONN_REQ_PENDING, SEND_CONN, CONN_RESP_REQ_PENDING, CONNECTED.
C20_StageOrder ==
  [][/\ \A order \in {<<"COMM_CREATE_START", "COMM_SEND_CONN",
                         "COMM_CONN_REQ_PENDING", "COMM_RECV_CONN",
                         "COMM_CONN_RESP_REQ_PENDING", "COMM_CONNECTED">>} :
          Rank(order, conn'.stage) >= Rank(order, conn.stage)
     /\ \A order \in {<<"COMM_CREATE_START", "COMM_RECV_CONN",
                         "COMM_CONN_REQ_PENDING", "COMM_SEND_CONN",
                         "COMM_CONN_RESP_REQ_PENDING", "COMM_CONNECTED">>} :
          Rank(order, l_comm'.stage) >= Rank(order, l_comm.stage)]_vars

\* the accepting side has got the connect message and stands at SEND_CONN,
\* its response refused by the fabric, while the connecting side waits for
\* the response
C20_Witness ==
  /\ l_comm.stage = "COMM_SEND_CONN"
  /\ conn.stage \in {"COMM_RECV_CONN", "COMM_CONN_RESP_REQ_PENDING"}

\* the slot of message k holds the request id of the local call
PairedWith(mb, k, id) ==
  MbSlot(mb, k) = [stat |-> "INPROGRESS", type |-> "REQ", elem |-> id]

\* the slot of message k still holds what the peer sent
PeerFirst(mb, k) ==
  MbSlot(mb, k).stat = "INPROGRESS" /\ MbSlot(mb, k).type = "BUFF"

\* nothing is under way: no call between its lookup and its insert, nothing
\* on the fabric, no completion unread
AtRest ==
  /\ user.scall = NoCall /\ user.rcall = NoCall
  /\ net = {}
  /\ \A e \in EPS : \A rail \in Rails : cq[e][rail] = << >>

CountIn(seq, Match(_)) == Cardinality({i \in 1 .. Len(seq) : Match(seq[i])})

\* the segments of SEND request id that were posted, and those of them whose
\* completion the sender has not read yet
SegsPosted(id) ==
  IF ~reqs[id].eager THEN reqs[id].xferred_rail_id
  ELSE IF \E i \in 1 .. Len(ep["S"].pending) : ep["S"].pending[i] = id THEN 0 ELSE 1

SegsOutstanding(id) ==
  LET Mine(entry) == entry.ctx = id IN
  Cardinality({op \in net : op.ctx = id})
    + CountIn(cq["S"][0], Mine) + CountIn(cq["S"][1], Mine)

\* the control message of message k has been handled by the sender: the recv
\* was called, and its control message is neither waiting to be posted, nor
\* on the fabric, nor in a completion the sender has not read
CtrlHandled(k) ==
  LET Ctrl(entry) == entry.buf.type = "CTRL" /\ entry.buf.msg_seq_num = k IN
  /\ k < user.nrecv
  /\ \A i \in 1 .. Len(ep["R"].pending) :
       IsBounce(ep["R"].pending[i])
         \/ reqs[ep["R"].pending[i]].type # "SEND_CTRL"
         \/ reqs[ep["R"].pending[i]].msg_seq_num # k
  /\ \A op \in net : op.msg.type = "CTRL" => op.msg.msg_seq_num # k
  /\ CountIn(cq["S"][0], Ctrl) + CountIn(cq["S"][1], Ctrl) = 0

\* C23: a SEND request counts one completion for each of its segments and,
\* when the control message had not arrived when send was called (the
\* request was created without the receiver's buffer), one for the control
\* message: total_num_compls is the number of segments of its schedule plus
\* one in that case; the completions it has counted are those of the
\* segments whose completion the sender has read plus the control message
\* handled after the call; and it is COMPLETED exactly when it has counted
\* total_num_compls of them, which is when all segments are finished and the
\* control message is there.
C23_SendCompletes ==
  /\ [](\A id \in DOMAIN reqs : reqs[id].type = "SEND" =>
        LET req == reqs[id]
            segs == SegsPosted(id) - SegsOutstanding(id)
            awaited == req.total_num_compls - Len(req.schedule) IN
        /\ awaited \in {0, 1}
        /\ req.ncompls
             = segs + (IF awaited = 1 /\ CtrlHandled(req.msg_seq_num) THEN 1 ELSE 0)
        /\ (req.state = "COMPLETED") <=> (req.ncompls = req.total_num_compls)
        /\ (req.state = "COMPLETED") <=>
             (segs = Len(req.schedule) /\ (awaited = 0 \/ CtrlHandled(req.msg_seq_num))))
  /\ [][\A id \in (DOMAIN reqs') \ (DOMAIN reqs) : reqs'[id].type = "SEND" =>
         reqs'[id].total_num_compls
           = Len(reqs'[id].schedule) + (IF reqs'[id].remote_len # 0 THEN 0 ELSE 1)]_vars

\* C23 witness: a SEND request of two segments that was created before the
\* control message arrived is COMPLETED with three completions
C23_Witness ==
  \E id \in DOMAIN reqs :
    /\ reqs[id].type = "SEND" /\ reqs[id].state = "COMPLETED"
    /\ Len(reqs[id].schedule) = 2
    /\ reqs[id].ncompls = 3

\* request id of the receiver has nothing left to happen: it is not waiting
\* to be posted, not on the fabric, and its completion has been read
Finished(id) ==
  LET Mine(entry) == entry.ctx = id IN
  /\ \A i \in 1 .. Len(ep["R"].pending) : ep["R"].pending[i] # id
  /\ \A op \in net : op.ctx # id
  /\ CountIn(cq["R"][0], Mine) + CountIn(cq["R"][1], Mine) = 0

\* the data of message k is with the receiver: send was called and has posted
\* every segment (or the eager message), nothing of the message is on the
\* fabric or in a completion the receiver has not read
Arrived(k) ==
  LET Data(entry) == /\ entry.flags \in {"REMOTE_WRITE", "RECV_DATA"}
                     /\ GET_SEQ_NUM_FROM_IMM(entry.data) = k IN
  /\ k < user.nsend
  /\ \A sid \in Held("send", k) : SegsPosted(sid) = Len(reqs[sid].schedule)
  /\ \A op \in net :
       op.op \in {"write", "senddata"} => GET_SEQ_NUM_FROM_IMM(op.imm) # k
  /\ CountIn(cq["R"][0], Data) + CountIn(cq["R"][1], Data) = 0

\* C24: a RECV request is COMPLETED exactly when its control message was
\* sent (the send of its SEND_CTRL request has completed) and the data of
\* its message is there: every segment of the message has arrived, in
\* whatever order the rails delivered them, or the eager message has arrived
\* and, unless it is empty, the copy out of its bounce buffer has finished.
\* It has then accumulated the size of the message.
C24_RecvCompletes ==
  \A id \in DOMAIN reqs : reqs[id].type = "RECV" =>
    LET req == reqs[id] IN
    /\ (req.state = "COMPLETED") <=>
         /\ Finished(req.send_ctrl_req)
         /\ Arrived(req.msg_seq_num)
         /\ req.eager_copy_req # NULL => Finished(req.eager_copy_req)
    /\ req.state = "COMPLETED" => req.size = user.sizes[req.msg_seq_num + 1]

\* C24 witness: the RECV request of the first message is COMPLETED after the
\* copy of its eager payload, and of the two segments of the second message
\* the one on rail 1 has been counted while the one on rail 0 is still on
\* the fabric
C24_Witness ==
  /\ \E id \in Held("recv", 0) :
       reqs[id].state = "COMPLETED" /\ reqs[id].eager_copy_req # NULL
  /\ \E id \in Held("recv", 1) :
       /\ reqs[reqs[id].recv_segms_req].ncompls = 1
       /\ \E op \in net : op.msg.type = "DATA" /\ op.rail = 0
                            /\ GET_SEQ_NUM_FROM_IMM(op.imm) = 1

\* the messages of size zero that were sent
ZeroMsgs == {k \in Msgs : k < Len(user.sizes) /\ user.sizes[k + 1] = 0}

\* what C25 says of the sender and of the eager copy: the SEND request of an
\* empty message is eager with one segment, all the sender puts on the fabric
\* for it is a send-with-immediate of length zero, the RECV request has no
\* EAGER_COPY request, and test reports both with size 0
ZeroByteEager ==
  \A k \in ZeroMsgs :
    /\ \A id \in Held("send", k) : reqs[id].eager /\ Len(reqs[id].schedule) = 1
    /\ \A op \in net :
         (op.from = "S" /\ GET_SEQ_NUM_FROM_IMM(op.imm) = k) =>
           (op.op = "senddata" /\ op.len = 0)
    /\ \A id \in Held("recv", k) : reqs[id].eager_copy_req = NULL
    /\ \A op \in {"send", "recv"} : \A n \in 0 .. MaxSize :
         <<op, k, n>> \in user.rep => n = 0

Queued(e, rail) ==
  Cardinality({i \in 1 .. Len(ep[e].pending) : ep[e].pending[i] = BounceCtx(rail)})

\* C26: on every rail the count of posted bounce buffers stays between 0
\* and max_bounce_posted, whatever buffers are received, posted again,
\* given back, refilled or refused by the fabric; it counts the buffers
\* that are posted and those that wait on the pending-request queue.
C26_CountBounded ==
  \A e \in EPS : \A rail \in Rails :
    /\ 0 <= ep[e].nbp[rail] /\ ep[e].nbp[rail] <= max_bounce_posted
    /\ ep[e].nbp[rail] = rx[e][rail] + Queued(e, rail)

\* C26 witness: with two buffers of a rail kept and a post refused by the
\* fabric, the rail has been refilled to max_bounce_posted
C26_Witness ==
  \E rail \in Rails :
    /\ user.pool # "none" /\ user.held[rail] = MaxHeld
    /\ faults.busy > 0
    /\ ep[user.pool].nbp[rail] = max_bounce_posted
    /\ Queued(user.pool, rail) > 0

\* C27 as stated: a decrement that takes the count of a rail below
\* min_bounce_posted refills the rail, to max_bounce_posted unless the fabric
\* refuses a post; and on a rail of a live endpoint the count is below
\* min_bounce_posted only while a bounce request of the rail waits on the
\* pending-request queue.
C27_RefillPending ==
  \A e \in EPS : \A rail \in Rails : ep[e].ref_cnt > 0 =>
    /\ ep[e].nbp[rail] < min_bounce_posted => Queued(e, rail) > 0
    /\ (ep[e].nbp[rail] = min_bounce_posted /\ rx[e][rail] > 0) =>
         \A c \in Credits :
           \A r \in {decrease_bounce_buff_cnt(
                       [World(c) EXCEPT !.rx[e][rail] = @ - 1], e, rail)} :
             IF r.refused
             THEN /\ r.ep[e].nbp[rail] >= min_bounce_posted
                  /\ \E i \in 1 .. Len(r.ep[e].pending) :
                       r.ep[e].pending[i] = BounceCtx(rail)
             ELSE r.ep[e].nbp[rail] = max_bounce_posted

\* C28: on a rail that had max_bounce_posted buffers posted when its
\* endpoint was created, whatever messages arrived since and whatever posts
\* the fabric refused, the count is back at max_bounce_posted whenever no
\* buffer of the rail is kept any more, and that many buffers are posted
\* whenever in addition none waits on the pending-request queue.
C28_ReturnsToMax ==
  \A rail \in Rails :
    (/\ user.pool # "none"
     /\ user.start[rail] = max_bounce_posted
     /\ user.held[rail] = 0) =>
      /\ ep[user.pool].nbp[rail] = max_bounce_posted
      /\ Queued(user.pool, rail) = 0 => rx[user.pool][rail] = max_bounce_posted

\* C28 witness: a rail that started at max_bounce_posted has kept more
\* buffers at a time than max - min, the fabric has refused a post, and with
\* none kept and none waiting the rail has max_bounce_posted buffers posted
C28_Witness ==
  \E rail \in Rails :
    /\ user.pool # "none"
    /\ user.start[rail] = max_bounce_posted
    /\ user.burst[rail] > max_bounce_posted - min_bounce_posted
    /\ faults.busy > 0
    /\ user.held[rail] = 0
    /\ Queued(user.pool, rail) = 0
    /\ rx[user.pool][rail] = max_bounce_posted

\* ------------------------------------------------- the states of a request
Terminal == {"COMPLETED", "ERROR"}

StateRank(state) ==
  CASE state = "CREATED" -> 0
    [] state = "PENDING" -> 1
    [] state = "COMPLETED" -> 2
    [] state = "ERROR" -> 3

\* the state of request id moves forward in this step, if it moves
Forward(id) ==
  reqs'[id].state # reqs[id].state =>
    /\ reqs[id].state \notin Terminal
    /\ StateRank(reqs'[id].state) > StateRank(reqs[id].state)

\* this step posts an operation of request id
Posted(id) == \E op \in net' \ net : op.ctx = id

\* C29 as stated: the state of a request moves only forward along CREATED,
\* PENDING, COMPLETED, or into ERROR; a request that is COMPLETED or ERROR
\* keeps its state and no operation is posted for it again
C29_StateOrder ==
  [][\A id \in DOMAIN reqs \cap DOMAIN reqs' :
       /\ Forward(id)
       /\ reqs[id].state \in Terminal => ~Posted(id)]_vars

\* ------------------------------------------- the pending-request queue
\* the number of bounce buffers of a rail among the first k entries of a queue
BounceAmong(q, k, rail) ==
  Cardinality({i \in 1 .. k : q[i] = BounceCtx(rail)})

\* one drain of the queue of endpoint e by a fabric with c credits: the
\* entries that left are the first k, each of them was posted, it stopped at
\* the first refusal with the refused request back at the front, and no
\* entry behind that one was posted
DrainInOrder(c, e) ==
  \A r \in {process_pending_reqs(World(c), e)} :
    LET q == ep[e].pending
        q2 == r.ep[e].pending
        k == Len(q) - Len(q2)
        ops == r.net \ net IN
    /\ k >= 0
    /\ q2 = SubSeq(q, k + 1, Len(q))
    /\ r.rc = "OK"
    /\ q2 # << >> <=> r.refused
    /\ c = -1 => q2 = << >>
    /\ \A i \in 1 .. k : ~IsBounce(q[i]) => \E op \in ops : op.ctx = q[i]
    /\ \A rail \in Rails :
         r.rx[e][rail] = rx[e][rail] + BounceAmong(q, k, rail)
    /\ \A op \in ops :
         \/ \E i \in 1 .. k : op.ctx = q[i]
         \/ q2 # << >> /\ op.ctx = q2[1]

\* the entries behind a request that stays in the queue stay behind it, in
\* the same order, and the request does not move back
OrderKept(e) ==
  LET q == ep[e].pending
      q2 == ep'[e].pending IN
  \A i \in 1 .. Len(q) :
    ~IsBounce(q[i]) /\ (\E j \in 1 .. Len(q2) : q2[j] = q[i]) =>
      \E j \in 1 .. i :
        /\ q2[j] = q[i]
        /\ Len(q2) - j >= Len(q) - i
        /\ SubSeq(q2, j, j + Len(q) - i) = SubSeq(q, i, Len(q))

\* C30: the pending-request queue is retried strictly from the front: a
\* drain posts the first entries in their order, puts the first refused
\* request back at the front and stops, and posts nothing that is behind
\* it; over every step the requests that remain keep their order.
C30_FrontToBack ==
  /\ [](\A e \in EPS : \A c \in Credits : DrainInOrder(c, e))
  /\ [][\A e \in EPS : OrderKept(e)]_vars

C30_Witness ==
  \E e \in EPS :
    /\ Len(ep[e].pending) >= 2
    /\ ep[e].pending[1] # ep[e].pending[2]
    /\ ~IsBounce(ep[e].pending[2])
    /\ \A r \in {process_pending_reqs(World(1), e)} :
         r.ep[e].pending = Tail(ep[e].pending) /\ r.refused

\* ------------------------------------- what is linked into the queue
Entries(q) == {q[i] : i \in 1 .. Len(q)}

\* the requests that a call ending in world w has linked into a queue
Linked(w, e) == Entries(w.ep[e].pending) \ Entries(ep[e].pending)

\* no request is in a queue twice (the bounce requests of a rail are told
\* apart by the rail only, so they are left out)
NoneTwice ==
  \A e \in EPS : \A i, j \in 1 .. Len(ep[e].pending) :
    (i < j /\ ep[e].pending[i] = ep[e].pending[j]) => IsBounce(ep[e].pending[i])

\* the worlds in which the calls the callers can make now end, on a fabric
\* with c credits, flush apart
DataCalls(c) ==
  (IF user.sc = "open"
   THEN {send(World(c), user.nsend, size).w : size \in SendSizes} ELSE {})
  \cup (IF user.rc = "open" THEN {recv(World(c), user.nrecv, MaxSize).w} ELSE {})
  \cup {test(World(c), id).w : id \in DOMAIN user.h}

FlushCalls(c) == IF user.rc = "open" THEN {flush(World(c), 1).w} ELSE {}

\* flush found the queue still busy after its progress and linked its new
\* request id without a post
LinkedUnposted(c, w, id) ==
  /\ process_cq_if_pending(World(c), "R").rc = "EAGAIN"
  /\ id \notin DOMAIN reqs
  /\ w.reqs[id].type = "FLUSH"
  /\ \A op \in w.net : op.ctx # id

\* C31 as stated: a request is linked into a pending-request queue only
\* when its latest post was refused with EAGAIN, and no request is in a
\* queue twice
C31_LinkedOnEagain ==
  /\ NoneTwice
  /\ \A c \in Credits : \A w \in DataCalls(c) \cup FlushCalls(c) : \A e \in EPS :
       Linked(w, e) \subseteq w.eagain

\* C31: a request is linked into a pending-request queue only when its latest
\* post was refused with EAGAIN or, in flush, when the queue was still busy
\* after the progress flush makes first, in which case the new request is
\* linked without a post; no request is in a queue twice.
C31_LinkedOnEagainOrBusy ==
  /\ NoneTwice
  /\ \A c \in Credits :
       /\ \A w \in DataCalls(c) : \A e \in EPS : Linked(w, e) \subseteq w.eagain
       /\ \A w \in FlushCalls(c) : \A e \in EPS : \A id \in Linked(w, e) :
            id \in w.eagain \/ (e = "R" /\ LinkedUnposted(c, w, id))

\* C31 witness: the CTRL of a receive is in the queue after its post was
\* refused, and a flush on a fabric that refuses again links its request
\* behind it without a post
C31_Witness ==
  /\ \E id \in Entries(ep["R"].pending) : ~IsBounce(id) /\ reqs[id].type = "SEND_CTRL"
  /\ faults.busy > 0
  /\ \E w \in FlushCalls(0) : \E id \in Linked(w, "R") :
       /\ LinkedUnposted(0, w, id)
       /\ Len(w.ep["R"].pending) >= 2

\* ------------------------------------- who keeps an allocated request
\* the sub-requests a request points at
SubReqs(id) ==
  IF id \notin DOMAIN reqs \/ reqs[id].type # "RECV" THEN {}
  ELSE {reqs[id].send_ctrl_req, reqs[id].recv_segms_req, reqs[id].eager_copy_req} \ {NULL}

\* the requests somebody will still release: those the callers hold with
\* their sub-requests, and those of a handshake under way
Kept ==
  LET held == DOMAIN user.h IN
  held \cup UNION {SubReqs(id) : id \in held}
       \cup ({conn.req} \ {NULL})
       \cup (IF s_comm.alive THEN {s_comm.conn_resp_req} \ {NULL} ELSE {})

\* the requests taken from a freelist and not given back
Allocated == DOMAIN reqs \ {LReq}

\* C32 as stated: whatever calls of connect, accept, send, recv, flush and
\* test were made and however they returned, a request taken from a
\* freelist and not given back is still kept by someone who will release
\* it (none is leaked), and a request that is kept was not given back
\* already (none is released twice)
C32_ReleasedOnce ==
  /\ Allocated \subseteq Kept
  /\ Kept \subseteq Allocated

\* ------------------------------------------- the segments of a send
\* the segments i .. j of the schedule of request req, and the segment an
\* RDMA write carries
Segs(req, i, j) ==
  {<<req.schedule[n].rail_id, req.schedule[n].offset, req.schedule[n].msg_size>> :
     n \in i .. j}

SegOf(op) == <<op.rail, op.off, op.len>>

Writes(ops, id) == {op \in ops : op.ctx = id /\ op.op = "write"}

\* the rendezvous SEND requests that have the receiver's buffer
Rendezvous(rs) ==
  {id \in DOMAIN rs : rs[id].type = "SEND" /\ ~rs[id].eager /\ rs[id].remote_len # 0}

\* send_progress on request id by a fabric with c credits and nothing else
\* on it posts the segments from xferred_rail_id on, one for each credit,
\* advances xferred_rail_id over them and answers EAGAIN if some are left
ResumesAt(id, c) ==
  \A r \in {send_progress([World(c) EXCEPT !.net = {}], "S", id)} :
    LET req == reqs[id]
        left == Len(req.schedule) - req.xferred_rail_id
        k == IF c = -1 \/ c > left THEN left ELSE c IN
    /\ r.reqs[id].xferred_rail_id = req.xferred_rail_id + k
    /\ {SegOf(op) : op \in r.net}
         = Segs(req, req.xferred_rail_id + 1, req.xferred_rail_id + k)
    /\ Cardinality(r.net) = k
    /\ \A op \in r.net : op.ctx = id /\ op.op = "write"
    /\ r.rc = IF k = left THEN "OK" ELSE "EAGAIN"

\* C33: a send whose segments were posted in part when the fabric answered
\* EAGAIN waits in the pending queue and its retry resumes at
\* xferred_rail_id: every call posts exactly the segments between the old
\* and the new xferred_rail_id, each once, so that over all retries each
\* segment of the schedule is posted once, none skipped and none again.
C33_ResumeAtRail ==
  /\ [](\A id \in Rendezvous(reqs) :
          /\ reqs[id].xferred_rail_id \in 0 .. Len(reqs[id].schedule)
          /\ \A c \in Credits : ResumesAt(id, c)
          /\ (reqs[id].xferred_rail_id < Len(reqs[id].schedule)
                /\ reqs[id].state # "ERROR")
               => id \in Entries(ep["S"].pending))
  /\ [][\A id \in Rendezvous(reqs') :
          LET was == IF id \in Rendezvous(reqs) THEN reqs[id].xferred_rail_id ELSE 0
              posted == Writes(net', id) \ Writes(net, id) IN
          /\ (id \in DOMAIN reqs /\ reqs[id].type = "SEND") =>
               reqs'[id].schedule = reqs[id].schedule
          /\ reqs'[id].xferred_rail_id >= was
          /\ {SegOf(op) : op \in posted} = Segs(reqs'[id], was + 1, reqs'[id].xferred_rail_id)
          /\ Cardinality(posted) = reqs'[id].xferred_rail_id - was]_vars

\* C33 witness: the first of two segments is on the fabric or done, the
\* second was refused and the request waits in the queue for its retry
C33_Witness ==
  \E id \in Rendezvous(reqs) :
    /\ Len(reqs[id].schedule) = 2
    /\ reqs[id].xferred_rail_id = 1
    /\ id \in Entries(ep["S"].pending)
    /\ faults.busy > 0

\* --------------------------------------------- calls that return nothing
\* a call returned an error or no request
Nothing(r) == r.req = NULL \/ r.w.rc # "OK"

\* the slot of message seq after the call is the one before it, or holds
\* what arrived from the peer during the progress the call made
SlotKept(mb, mb2, seq) ==
  \/ MbSlot(mb2, seq) = MbSlot(mb, seq)
  \/ MbSlot(mb, seq).type # "REQ" /\ MbSlot(mb2, seq).type = "BUFF"

\* C34 as stated: a call of send, recv or flush that returns an error or no
\* request leaves the number of requests in flight of its communicator as
\* it was and puts no request in the slot of its sequence number, whatever
\* the size of the buffer it was given
C34_NoPhantom ==
  \A c \in Credits :
    /\ user.sc = "open" =>
         \A size \in SendSizes : \A r \in {send(World(c), user.nsend, size)} :
           Nothing(r) =>
             /\ r.w.s_comm.num_inflight_reqs = s_comm.num_inflight_reqs
             /\ SlotKept(s_comm.msgbuff, r.w.s_comm.msgbuff, s_comm.next_msg_seq_num)
    /\ user.rc = "open" =>
         /\ \A size \in SendSizes : \A r \in {recv(World(c), user.nrecv, size)} :
              Nothing(r) =>
                /\ r.w.r_comm.num_inflight_reqs = r_comm.num_inflight_reqs
                /\ SlotKept(r_comm.msgbuff, r.w.r_comm.msgbuff, r_comm.next_msg_seq_num)
         /\ \A size \in {0, 1} : \A r \in {flush(World(c), size)} :
              Nothing(r) => r.w.r_comm.num_inflight_reqs = r_comm.num_inflight_reqs

\* what a call did to the sequence counter, was the value before the call:
\* kept when the call returned no request or an error, one further otherwise
SeqAfter(r, was, now) ==
  IF Nothing(r) THEN now = was ELSE now = NextSeq(was)

\* a step changes a sequence counter only by one and only as it hands the
\* user a request of that communicator, and every such step changes it
SeqStep ==
  /\ s_comm.next_msg_seq_num' # s_comm.next_msg_seq_num =>
     /\ s_comm.next_msg_seq_num' = NextSeq(s_comm.next_msg_seq_num)
     /\ user.nsend' = user.nsend + 1
     /\ \E id \in DOMAIN user.h' \ DOMAIN user.h : user.h'[id].op = "send"
  /\ r_comm.next_msg_seq_num' # r_comm.next_msg_seq_num =>
     /\ r_comm.next_msg_seq_num' = NextSeq(r_comm.next_msg_seq_num)
     /\ user.nrecv' = user.nrecv + 1
     /\ \E id \in DOMAIN user.h' \ DOMAIN user.h : user.h'[id].op = "recv"
  /\ user.nsend' = user.nsend + 1 =>
       s_comm.next_msg_seq_num' = NextSeq(s_comm.next_msg_seq_num)
  /\ user.nrecv' = user.nrecv + 1 =>
       r_comm.next_msg_seq_num' = NextSeq(r_comm.next_msg_seq_num)

DataOps(ops) == {op \in ops : op.from = "S" /\ op.op \in {"write", "senddata"}}

SendReqs(rs) == {id \in DOMAIN rs : rs[id].type = "SEND"}

\* send on a communicator that is not connected after the progress it made
\* returns what that progress returned and no request, and has neither
\* allocated a SEND request, nor advanced the sequence number, nor posted data
NotConnectedSend(c, size) ==
  \A r \in {send(World(c), user.nsend, size)} :
    ~r.w.s_comm.connected =>
      /\ r.req = NULL
      /\ r.w.rc = ofi_process_cq(World(c), "S").rc
      /\ SendReqs(r.w.reqs) = SendReqs(reqs)
      /\ r.w.s_comm.next_msg_seq_num = s_comm.next_msg_seq_num
      /\ r.w.s_comm.num_inflight_reqs = s_comm.num_inflight_reqs
      /\ r.w.s_comm.msgbuff = s_comm.msgbuff
      /\ DataOps(r.w.net) = DataOps(net)

\* C36: no eager send and no write of a user message is posted before the
\* connected flag of the send communicator is true; send on a communicator
\* still not connected after one round of progress returns no request and
\* success, allocates no request and consumes no sequence number
C36_NoDataBeforeConnected ==
  /\ [](/\ ~s_comm.connected =>
             /\ DataOps(net) = {} /\ SendReqs(reqs) = {}
             /\ s_comm.next_msg_seq_num = 0
        /\ (user.sc = "open" /\ ~s_comm.connected) =>
             \A c \in Credits, size \in SendSizes : NotConnectedSend(c, size))
  /\ [][DataOps(net') \ DataOps(net) # {} => s_comm.connected']_vars

\* the send communicator was handed out and is not connected, the response
\* of the receiver is on its way, and send returns no request and success
C36_Witness ==
  /\ user.sc = "open" /\ ~s_comm.connected
  /\ \E op \in net : op.from = "R" /\ op.ctx = LReq
  /\ \A size \in SendSizes : \A r \in {send(World(-1), user.nsend, size)} :
       r.req = NULL /\ r.w.rc = "OK" /\ ~r.w.s_comm.connected

\* C37: while the connected flag of the send communicator is true, the
\* response of the receiver has been received and is valid, the remote
\* addresses of all rails are inserted, and the communicators are bound to
\* each other by their ids, each registered under its id on its endpoint
C37_ConnectedMeansBound ==
  (s_comm.alive /\ s_comm.connected) =>
    /\ user.rc # "closed" => r_comm.alive
    /\ s_comm.conn_msg # NoElem
    /\ s_comm.conn_msg.type = "CONN_RESP"
    /\ s_comm.conn_msg.num_rails = NumRails
    /\ s_comm.conn_msg.local_comm_id < num_comm_ids
    /\ s_comm.conn_resp_req = NULL
    /\ s_comm.num_init_rails = NumRails
    /\ s_comm.remote_comm_id = r_comm.local_comm_id
    /\ r_comm.remote_comm_id = s_comm.local_comm_id
    /\ r_comm.alive => get_comm(World(-1), "R", s_comm.remote_comm_id) = "r"
    /\ get_comm(World(-1), "S", r_comm.remote_comm_id) = "s"

\* the response has made the send communicator connected, the receive
\* communicator having another id than the listen communicator it came from
C37_Witness ==
  /\ s_comm.connected /\ user.sc = "open"
  /\ r_comm.local_comm_id # l_comm.comm_id
  /\ s_comm.remote_comm_id # 0
  /\ reqs[LReq].type = "SEND_CONN_RESP"

\* a rendezvous SEND request that has the control message of its message and
\* is longer than the buffer the control message tells
OversizedSend(id) ==
  /\ reqs[id].type = "SEND" /\ ~reqs[id].eager
  /\ CtrlHandled(reqs[id].msg_seq_num)
  /\ reqs[id].buff_len > reqs[id].remote_len

\* C38 as stated: a rendezvous send longer than the buffer length of the
\* receiver's control message never posts a write and its request is in
\* ERROR once the control message is there, whether the control message
\* came before the call of send or after it
C38_OversizedNeverWrites ==
  /\ [](\A id \in DOMAIN reqs :
         OversizedSend(id) =>
           /\ reqs[id].state = "ERROR"
           /\ reqs[id].xferred_rail_id = 0
           /\ Writes(net, id) = {})
  /\ [][\A op \in net' \ net :
          op.op = "write" => reqs'[op.ctx].buff_len <= reqs'[op.ctx].remote_len]_vars

\* the references on endpoint e of the communicators the callers hold open
OpenRefs(e) ==
  IF e = "S" THEN (IF user.sc \in {"open", "closing"} THEN 1 ELSE 0)
  ELSE (IF user.lc = "open" THEN 1 ELSE 0) + (IF user.rc = "open" THEN 1 ELSE 0)

\* C39 as stated: a failing connect or accept gives back no more than the
\* endpoint reference taken for the communicator it was creating: every
\* open listen communicator and every communicator returned to the caller
\* keeps its reference, and the endpoint is not torn down under them
C39_FailKeepsOpenRefs ==
  \A e \in EPS : ep[e].ref_cnt >= OpenRefs(e)

\* the identifiers of the communicators of endpoint e that exist
OpenIds(e) ==
  IF e = "S" THEN (IF s_comm.alive THEN {s_comm.local_comm_id} ELSE {})
  ELSE (IF l_comm.alive THEN {l_comm.comm_id} ELSE {})
         \cup (IF r_comm.alive THEN {r_comm.local_comm_id} ELSE {})

\* C40 as stated: on an endpoint that has its lookup array, comms[id] refers
\* to a communicator exactly when id is taken from the pool, and the
\* identifiers taken are those of the communicators that exist: an entry
\* is cleared when its communicator goes
C40_CommsMatchIds ==
  \A e \in EPS :
    ep[e].ref_cnt > 0 =>
      /\ DOMAIN ep[e].comms = ep[e].ids
      /\ ep[e].ids = OpenIds(e)

\* C22 as stated: when recv has found the slot of its message not started
\* and an eager message has taken the slot before recv enters its request,
\* recv frees the request it allocated and returns no request and no error.
C22_RaceReturnsNull ==
  (/\ user.rcall # NoCall
   /\ user.rcall.got.res # "SUCCESS"
   /\ MbSlot(r_comm.msgbuff, r_comm.next_msg_seq_num).type = "BUFF") =>
    \A r \in {RecvLookedUp(World(-1), user.rcall.got, user.nrecv, MaxSize)} :
      /\ r.req = NULL
      /\ DOMAIN r.w.reqs = DOMAIN reqs
      /\ r.w.r_comm = r_comm
      /\ r.w.rc = "OK"

====
